---- MODULE Spec2Model ----
(***************************************************************************)
(* A model of the per-bar decision runtime of evdnx/gots: the risk sizer   *)
(* (risk.CalcQty), the in-memory executors, BaseStrategy with the          *)
(* BreakoutMomentum caller, the hybrid trend/mean-reversion FSM and the    *)
(* RiskParityRotation scheduler.                                           *)
(*                                                                         *)
(* Numbers.  Go float64 values are modelled exactly where the code's       *)
(* arithmetic is exact on the inputs enumerated here:                      *)
(*   - prices are integers (currency units);                               *)
(*   - quantities are integers counted in units of 1/QtyScale;             *)
(*   - money (equity, cost) is an integer counted in units of 1/QtyScale   *)
(*     of a currency unit, so cost = price * qty is exact;                 *)
(*   - fractions (risk, stop loss, trailing) are rationals <<n, d>>;       *)
(*   - an average price is an extended rational: finite n/d, +Inf, -Inf    *)
(*     or NaN, with the IEEE-754 rules Go applies to x/0 and Inf*0.        *)
(* Binary rounding error of float64 is not modelled.                       *)
(***************************************************************************)
EXTENDS Integers, Sequences, FiniteSets, TLC

VARIABLES
    qin, qout,      \* risk.CalcQty: its inputs and its result
    exec,           \* the in-memory executor: equity, positions, avgPrice, orders,
                    \* and calls: the orders the last handler passed to Submit
    Cfg,            \* the StrategyConfig of the strategy
    prices,         \* BaseStrategy.prices, the price buffer
    bars,           \* the number of ProcessBar calls made so far
    fsm,            \* HybridTrendMeanReversion: state, trendSide, flatBarCounter
    rp,             \* RiskParityRotation: states, barsSinceRebalance, topK, intervalBars
    mu,             \* RiskParityRotation.mu: the thread that holds it, 0 when free
    thr             \* the threads inside RiskParityRotation.ProcessBar: position and locals

vars == <<qin, qout, exec, Cfg, prices, bars, fsm, rp, mu, thr>>

----------------------------------------------------------------------------
(* Arithmetic helpers *)

Abs(x) == IF x < 0 THEN -x ELSE x

Sign(x) == IF x > 0 THEN 1 ELSE IF x < 0 THEN -1 ELSE 0

Min(a, b) == IF a < b THEN a ELSE b

Max(a, b) == IF a > b THEN a ELSE b

RECURSIVE Gcd(_, _)
Gcd(a, b) == IF b = 0 THEN Abs(a) ELSE Gcd(b, a % b)

\* math.Floor(n / d) for integers n and d # 0
FloorDiv(n, d) == IF d > 0 THEN n \div d ELSE (-n) \div (-d)

\* math.Pow10(p) for p >= 0
RECURSIVE Pow10(_)
Pow10(p) == IF p <= 0 THEN 1 ELSE 10 * Pow10(p - 1)

\* In Rat, RatMul, RatAdd, clamp01 and Submit the arguments are bound to their
\* values once (x \in {a}): TLC otherwise re-evaluates an argument expression
\* at every use when it evaluates ENABLED, which the fairness conditions need.
\* a rational n/d in lowest terms with d > 0
Rat(n, d) ==
    LET Lowest(x, y) ==
            LET g == Gcd(Abs(x), Abs(y))
                s == IF y < 0 THEN -1 ELSE 1
            IN  <<(s * x) \div g, (s * y) \div g>>
    IN  CHOOSE r \in {Lowest(x, y) : x \in {n}, y \in {d}} : TRUE

RatMul(a, b) == CHOOSE r \in {Rat(x[1] * y[1], x[2] * y[2]) : x \in {a}, y \in {b}} : TRUE

RatDiv(a, b) == Rat(a[1] * b[2], a[2] * b[1])

RatLeq(a, b) == a[1] * b[2] <= b[1] * a[2]

RatLt(a, b) == a[1] * b[2] < b[1] * a[2]

\* quantity unit: 0.0001, the StepSize of the repository's test configurations
QtyScale == 100 * 100

----------------------------------------------------------------------------
(* risk.CalcQty *)

\* step 4 of CalcQty: math.Floor(rawQty/StepSize) * StepSize, rawQty = raw[1]/raw[2]
StepFloor(raw, cfg) ==
    IF cfg.StepSize > 0
    THEN <<FloorDiv(raw[1], raw[2] * cfg.StepSize) * cfg.StepSize, 1>>
    ELSE raw

\* the guard of the precision rounding
PrecisionApplies(cfg) == cfg.QuantityPrecision > 0

\* a precision step that rounds up (math.Ceil) instead of flooring
PrecisionCeil(raw, cfg) ==
    IF cfg.QuantityPrecision > 0
    THEN LET factor == Pow10(cfg.QuantityPrecision)
         IN  Rat((0 - FloorDiv(0 - raw[1] * factor, raw[2] * QtyScale)) * QtyScale,
                 factor)
    ELSE raw

\* step 5 of CalcQty: math.Floor(rawQty*factor) / factor with factor = 10^precision;
\* in quantity units one decimal digit of precision p is QtyScale / 10^p units.
PrecisionFloor(raw, cfg) ==
    IF PrecisionApplies(cfg)
    THEN LET factor == Pow10(cfg.QuantityPrecision)
         IN  Rat(FloorDiv(raw[1] * factor, raw[2] * QtyScale) * QtyScale, factor)
    ELSE raw

\* CalcQty(equity, maxRisk, stopLossPct, price, cfg): the result as a rational
\* number of quantity units.  equity is money, maxRisk and stopLossPct are
\* rationals, price is an integer.
CalcQty(eq, maxRisk, stopLossPct, price, cfg) ==
    LET slDistPos == price * stopLossPct[1] > 0
        ratio     == RatDiv(maxRisk, stopLossPct)
        rawQty    == Rat(eq * ratio[1], price * ratio[2])
        stepped   == StepFloor(rawQty, cfg)
        rounded   == PrecisionFloor(stepped, cfg)
    IN  IF ~slDistPos THEN <<0, 1>>
        ELSE IF RatLt(rounded, <<cfg.MinQty, 1>>) THEN <<0, 1>>
        ELSE rounded

----------------------------------------------------------------------------
(* The sizer on its own: inputs drawn from bounded sets, one call. *)

NoOrders == << >>

\* the executor and strategy variables are not used by the sizer runs
\* no rotation scheduler
RotationIdle ==
    /\ rp = << >>
    /\ mu = 0
    /\ thr = << >>

StrategyIdle ==
    /\ exec = << >>
    /\ Cfg = << >>
    /\ prices = << >>
    /\ bars = 0
    /\ fsm = << >>
    /\ RotationIdle

QtyEquities == {-30 * QtyScale, 0, 30 * QtyScale, 10000 * QtyScale}

QtyRisks == {<<1, 100>>, <<1, 50>>}

QtyStops == {<<0, 1>>, <<3, 200>>, <<1, 50>>}

QtyPrices == {0, 7, 100}

QtySteps == {0, 1, 100, 2500, QtyScale}

QtyPrecisions == {0, 1, 2}

QtyMins == {0, 10, 5 * QtyScale}

QtyInit ==
    /\ qin \in [eq : QtyEquities, maxRisk : QtyRisks, stopLossPct : QtyStops,
                price : QtyPrices, StepSize : QtySteps,
                QuantityPrecision : QtyPrecisions, MinQty : QtyMins]
    /\ (qin.StepSize = 0 => qin.eq <= 30 * QtyScale)   \* keeps the products in range
    /\ qout = <<"none">>
    /\ StrategyIdle

QtyCall ==
    /\ qout = <<"none">>
    /\ qout' = CalcQty(qin.eq, qin.maxRisk, qin.stopLossPct, qin.price, qin)
    /\ UNCHANGED <<qin, exec, Cfg, prices, bars, fsm, rp, mu, thr>>

QtyNext == QtyCall

SpecQty == QtyInit /\ [][QtyNext]_vars

\* q is a whole multiple of StepSize
IsStepMultiple(q, cfg) == q[2] = 1 /\ q[1] % cfg.StepSize = 0

\* q has at most p decimal digits: q * 10^p is an integer
HasDigits(q, p) == (q[1] * Pow10(p)) % (q[2] * QtyScale) = 0

QtyValidCfg == qin.StepSize > 0 /\ qin.QuantityPrecision >= 0 /\ qin.MinQty >= 0

QtyDone == qout # <<"none">>

(* C5: for StepSize > 0, QuantityPrecision >= 0 and MinQty >= 0, CalcQty
   returns 0 or a value that is a whole multiple of StepSize, has at most
   QuantityPrecision decimal digits and is >= MinQty; never a negative one. *)
C5_Quantized ==
    (QtyDone /\ QtyValidCfg) =>
        \/ qout = <<0, 1>>
        \/ /\ qout[1] > 0
           /\ IsStepMultiple(qout, qin)
           /\ HasDigits(qout, qin.QuantityPrecision)
           /\ ~RatLt(qout, <<qin.MinQty, 1>>)

----------------------------------------------------------------------------
(* float64 values that may be infinite or NaN: [k, n, d] with k in
   {"fin", "pinf", "ninf", "nan"}; a finite value is n/d in lowest terms. *)

XFin(n, d) == LET r == Rat(n, d) IN [k |-> "fin", n |-> r[1], d |-> r[2]]

XInt(i) == [k |-> "fin", n |-> i, d |-> 1]

XNaN == [k |-> "nan", n |-> 0, d |-> 1]

XPInf == [k |-> "pinf", n |-> 0, d |-> 1]

XNInf == [k |-> "ninf", n |-> 0, d |-> 1]

\* -1, 0, 1 for a value that is not NaN
XSign(a) ==
    CASE a.k = "pinf" -> 1
      [] a.k = "ninf" -> -1
      [] OTHER -> Sign(a.n)

XIsInf(a) == a.k \in {"pinf", "ninf"}

XOfSign(s) == IF s > 0 THEN XPInf ELSE XNInf

XNeg(a) ==
    CASE a.k = "fin" -> [a EXCEPT !.n = -a.n]
      [] a.k = "pinf" -> XNInf
      [] a.k = "ninf" -> XPInf
      [] OTHER -> XNaN

XAbs(a) == IF a.k = "nan" THEN XNaN ELSE IF XSign(a) < 0 THEN XNeg(a) ELSE a

XMul(a, b) ==
    CASE a.k = "nan" \/ b.k = "nan" -> XNaN
      [] a.k = "fin" /\ b.k = "fin" ->
            LET g1 == Gcd(Abs(a.n), b.d)       \* cancel first: keeps the products small
                g2 == Gcd(Abs(b.n), a.d)
            IN  XFin((a.n \div g1) * (b.n \div g2), (a.d \div g2) * (b.d \div g1))
      [] XSign(a) = 0 \/ XSign(b) = 0 -> XNaN          \* Inf * 0
      [] OTHER -> XOfSign(XSign(a) * XSign(b))

XAdd(a, b) ==
    CASE a.k = "nan" \/ b.k = "nan" -> XNaN
      [] a.k = "fin" /\ b.k = "fin" -> XFin(a.n * b.d + b.n * a.d, a.d * b.d)
      [] XIsInf(a) /\ XIsInf(b) -> IF a.k = b.k THEN a ELSE XNaN   \* Inf - Inf
      [] XIsInf(a) -> a
      [] OTHER -> b

XSub(a, b) == XAdd(a, XNeg(b))

\* a / b; a zero divisor is +0 (the result of x - x)
XDiv(a, b) ==
    CASE a.k = "nan" \/ b.k = "nan" -> XNaN
      [] XIsInf(a) /\ XIsInf(b) -> XNaN
      [] XIsInf(b) -> XInt(0)
      [] XIsInf(a) -> IF XSign(b) < 0 THEN XNeg(a) ELSE a
      [] b.n = 0 -> IF a.n = 0 THEN XNaN ELSE XOfSign(a.n)
      [] OTHER -> XFin(a.n * b.d, a.d * b.n)

\* a/b < c/d for b, d > 0, by whole parts and then the inverted remainders
\* (no cross product, so no overflow)
RECURSIVE FracLt(_, _, _, _)
FracLt(a, b, c, d) ==
    LET qa == FloorDiv(a, b)
        qc == FloorDiv(c, d)
        ra == a - qa * b
        rc == c - qc * d
    IN  IF qa # qc THEN qa < qc
        ELSE IF rc = 0 THEN FALSE
        ELSE IF ra = 0 THEN TRUE
        ELSE FracLt(d, rc, b, ra)

\* a < b, a <= b: false when either side is NaN
XLt(a, b) ==
    CASE a.k = "nan" \/ b.k = "nan" -> FALSE
      [] a.k = "fin" /\ b.k = "fin" -> FracLt(a.n, a.d, b.n, b.d)
      [] a.k = b.k -> FALSE
      [] OTHER -> a.k = "ninf" \/ b.k = "pinf"

XLeq(a, b) ==
    CASE a.k = "nan" \/ b.k = "nan" -> FALSE
      [] OTHER -> a = b \/ XLt(a, b)

\* math.Max: NaN if either argument is NaN
XMax(a, b) ==
    CASE a.k = "nan" \/ b.k = "nan" -> XNaN
      [] XLt(a, b) -> b
      [] OTHER -> a

\* a rational <<n, d>> as a float
XRat(r) == XFin(r[1], r[2])

----------------------------------------------------------------------------
(* types.Order and the in-memory executors (PaperExecutor, MockExecutor).
   An executor state es is [equity, positions, avgPrice, orders, calls,
   closeLog, trailLog]: orders is MockExecutor's log of accepted orders;
   calls, closeLog and trailLog record the handler that is running: the
   orders it passed to Submit, and its calls of closePosition and of
   applyTrailingStop with the position each call read. *)

Buy == "BUY"

Sell == "SELL"

Order(sym, side, qty, price, comment) ==
    [Symbol |-> sym, Side |-> side, Qty |-> qty, Price |-> price, Comment |-> comment]

\* the average price Submit stores: (prev*(pos' -/+ qty) + cost) / pos'
NewAvg(prev, posBefore, cost, posAfter) ==
    XDiv(XAdd(XMul(prev, XInt(posBefore)), XInt(cost)), XInt(posAfter))

\* the cash check of a BUY
InsufficientCash(cost, eq) == cost > eq

\* the position after a SELL of qty
SellPosition(pos, qty) == pos - qty

\* Submit(o): the state after the call
Submit(es, o) ==
    LET Once(e0, ord) ==
            LET cost == ord.Price * ord.Qty
                pos  == e0.positions[ord.Symbol]
                prev == e0.avgPrice[ord.Symbol]
                seen == [e0 EXCEPT !.calls = Append(@, ord)]
            IN  IF ord.Qty = 0 THEN seen
                ELSE IF ord.Side = Buy
                THEN IF InsufficientCash(cost, e0.equity) THEN seen
                     ELSE [seen EXCEPT
                             !.equity = @ - cost,
                             !.positions[ord.Symbol] = pos + ord.Qty,
                             !.avgPrice[ord.Symbol] = NewAvg(prev, pos, cost, pos + ord.Qty),
                             !.orders = Append(@, ord)]
                ELSE [seen EXCEPT
                        !.equity = @ + cost,
                        !.positions[ord.Symbol] = SellPosition(pos, ord.Qty),
                        !.avgPrice[ord.Symbol] =
                            NewAvg(prev, pos, cost, SellPosition(pos, ord.Qty)),
                        !.orders = Append(@, ord)]
    IN  CHOOSE r \in {Once(e0, ord) : e0 \in {es}, ord \in {o}} : TRUE

\* NewMockExecutor(startEquity) / NewPaperExecutor(startEquity)
NewExecutor(startEquity, syms) ==
    [equity |-> startEquity,
     positions |-> [s \in syms |-> 0],
     avgPrice |-> [s \in syms |-> XInt(0)],
     orders |-> NoOrders,
     calls |-> NoOrders,
     closeLog |-> << >>,
     trailLog |-> << >>]

\* a handler starts: nothing submitted, nothing called yet
StartHandler(es) == [es EXCEPT !.calls = NoOrders, !.closeLog = << >>, !.trailLog = << >>]

----------------------------------------------------------------------------
(* priceBuffer: a rolling window of closing prices (a sequence, oldest first) *)

\* the capacity BaseStrategy gives its buffer: newPriceBuffer(64)
BufferCap == 64

\* the warm-up gate of the strategies: hasHistory(15)
WarmUp == 15

\* the lookback of Trend
TrendLookback == 6

\* the lookback of Slope and Volatility
StatLookback == 8

RECURSIVE SumOver(_, _, _)
\* the sum of f[i] for i in lo..hi
SumOver(f, lo, hi) == IF lo > hi THEN 0 ELSE f[lo] + SumOver(f, lo + 1, hi)

\* the last m elements of buf
LastN(buf, m) == SubSeq(buf, Len(buf) - m + 1, Len(buf))

\* a faulty variant of BufAdd: a full buffer drops the new price
BufAddKeepOldest(buf, v, max) == IF Len(buf) >= max THEN buf ELSE Append(buf, v)

\* Add(v) on a buffer of capacity max
BufAdd(buf, v, max) ==
    LET b == Append(buf, v)
    IN  IF Len(b) > max THEN LastN(b, max) ELSE b

BufLast(buf) == IF Len(buf) = 0 THEN 0 ELSE buf[Len(buf)]

BufPrev(buf) == IF Len(buf) < 2 THEN 0 ELSE buf[Len(buf) - 1]

\* min(lookback, len - 1)
Lookback(buf, lookback) == IF lookback >= Len(buf) THEN Len(buf) - 1 ELSE lookback

\* the net score of rises and falls over the last lookback transitions
TrendScore(buf) ==
    LET n  == Len(buf)
        lb == Lookback(buf, TrendLookback)
        tick == [i \in 1..n |->
                    IF i = 1 THEN 0
                    ELSE IF buf[i] > buf[i - 1] THEN 1
                    ELSE IF buf[i] < buf[i - 1] THEN -1 ELSE 0]
    IN  SumOver(tick, n - lb + 1, n)

\* a faulty variant of TrendThreshold: a third of the lookback, no floor of 2
TrendThresholdThird(buf) == Lookback(buf, TrendLookback) \div 3

TrendThreshold(buf) == Max(2, Lookback(buf, TrendLookback) \div 3)

\* Trend(): -1, 0 or 1
Trend(buf) ==
    IF Len(buf) < 2 THEN 0
    ELSE IF TrendScore(buf) >= TrendThreshold(buf) THEN 1
    ELSE IF TrendScore(buf) <= -TrendThreshold(buf) THEN -1
    ELSE 0

\* Slope(): the least-squares slope over the last lookback+1 points, a rational
Slope(buf) ==
    LET n     == Len(buf)
        lb    == Lookback(buf, StatLookback)
        start == n - lb                        \* 1-based index of the first point
        count == lb + 1
        xs    == [i \in 1..n |-> i - start]
        sumX  == SumOver(xs, start, n)
        sumY  == SumOver(buf, start, n)
        sumXY == SumOver([i \in 1..n |-> xs[i] * buf[i]], start, n)
        sumXX == SumOver([i \in 1..n |-> xs[i] * xs[i]], start, n)
        den   == count * sumXX - sumX * sumX
    IN  IF n < 2 THEN <<0, 1>>
        ELSE IF den = 0 THEN <<0, 1>>
        ELSE Rat(count * sumXY - sumX * sumY, den)

\* Volatility(): the mean absolute first difference over the lookback, a rational
Volatility(buf) ==
    LET n  == Len(buf)
        lb == Lookback(buf, StatLookback)
        diff == [i \in 1..n |-> IF i = 1 THEN 0 ELSE Abs(buf[i] - buf[i - 1])]
    IN  IF n < 2 THEN <<0, 1>>
        ELSE IF lb = 0 THEN <<0, 1>>
        ELSE Rat(SumOver(diff, n - lb + 1, n), lb)

----------------------------------------------------------------------------
(* BaseStrategy: the helpers every single-symbol strategy calls.  cfg is the
   StrategyConfig, es the executor state, buf the price buffer. *)

\* submitOrder(o, ctx): one Executor.Submit call, no retry
submitOrder(es, o) == Submit(es, o)

\* calcQty(price): the sized quantity in quantity units
calcQty(es, cfg, price) ==
    LET q == CalcQty(es.equity, cfg.MaxRiskPerTrade, cfg.StopLossPct, price, cfg)
    IN  FloorDiv(q[1], q[2])

\* a faulty variant of CloseSide: the side of the position itself
CloseSideOfPosition(qty) == IF qty < 0 THEN Sell ELSE Buy

\* the side of the order that flattens a position of qty
CloseSide(qty) == IF qty < 0 THEN Buy ELSE Sell

\* closePosition(price, ctx)
closePosition(es, sym, price, ctx) ==
    LET qty == es.positions[sym]
        in  == [es EXCEPT !.closeLog =
                   Append(@, [qty |-> qty, price |-> price, ctx |-> ctx,
                              at |-> Len(es.calls)])]
    IN  IF qty = 0 THEN in
        ELSE submitOrder(in, Order(sym, CloseSide(qty), Abs(qty), price, ctx))

\* trailingStopLevel(entryAvg, side)
trailingStopLevel(cfg, entryAvg, side) ==
    IF side > 0
    THEN XMul(entryAvg, XAdd(XInt(1), XRat(cfg.TrailingPct)))
    ELSE XMul(entryAvg, XSub(XInt(1), XRat(cfg.TrailingPct)))

\* a faulty variant of TrailingHit: both comparisons turned round
TrailingHitInverted(qty, currentPrice, level) ==
    \/ qty > 0 /\ XLeq(XInt(currentPrice), level)
    \/ qty < 0 /\ XLeq(level, XInt(currentPrice))

\* the trigger of applyTrailingStop
TrailingHit(qty, currentPrice, level) ==
    \/ qty > 0 /\ XLeq(level, XInt(currentPrice))
    \/ qty < 0 /\ XLeq(XInt(currentPrice), level)

\* applyTrailingStop(currentPrice)
applyTrailingStop(es, cfg, sym, currentPrice) ==
    LET qty   == es.positions[sym]
        avg   == es.avgPrice[sym]
        level == trailingStopLevel(cfg, avg, Sign(qty))
        in    == [es EXCEPT !.trailLog =
                     Append(@, [qty |-> qty, avg |-> avg, price |-> currentPrice,
                                at |-> Len(es.calls), norders |-> Len(es.orders)])]
    IN  IF cfg.TrailingPct[1] <= 0 THEN in
        ELSE IF qty = 0 THEN in
        ELSE IF TrailingHit(qty, currentPrice, level)
        THEN closePosition(in, sym, currentPrice, "trailing_stop")
        ELSE in

\* recordPrice(close)
recordPrice(buf, close) == BufAdd(buf, close, BufferCap)

\* a faulty variant of hasHistory: one sample short
hasHistoryOneShort(buf, n) == n <= 0 \/ Len(buf) >= n - 1

\* hasHistory(n)
hasHistory(buf, n) == n <= 0 \/ Len(buf) >= n

bullishFallback(buf) ==
    Len(buf) >= 3 /\ Trend(buf) > 0 /\ Slope(buf)[1] > 0

bearishFallback(buf) ==
    Len(buf) >= 3 /\ Trend(buf) < 0 /\ Slope(buf)[1] < 0

swingVolatility(buf) == Volatility(buf)

lastPriceChange(buf) == IF Len(buf) < 2 THEN 0 ELSE BufLast(buf) - BufPrev(buf)

\* sanitizeVolatility(raw, price); raw and price are floats
sanitizeVolatility(buf, raw, price) ==
    LET p == IF XLeq(price, XInt(0)) THEN XInt(1) ELSE price
        bad == \/ raw.k = "nan"
               \/ XIsInf(raw)
               \/ XLeq(raw, XInt(0))
               \/ XLt(XMul(p, XFin(1, 10)), raw)
        vol == XRat(swingVolatility(buf))
        fallback == IF XLeq(vol, XInt(0)) THEN XMul(p, XFin(2, 100)) ELSE vol
    IN  IF bad THEN XMax(fallback, XFin(1, 10000)) ELSE raw

----------------------------------------------------------------------------
(* The indicator suite (github.com/evdnx/goti) is an external collaborator:
   what it answers on a bar is an input.  An answer ind is a record
     addErr          suite.Add returned an error
     hBull, hBear    HMA  IsBullishCrossover / IsBearishCrossover: "err", "no", "yes"
     vBull, vBear    VWAO IsBullishCrossover / IsBearishCrossover: "err", "no", "yes"
     atBull, atBear  ATSO IsBullishCrossover / IsBearishCrossover (a bool)
     atso            the last ATSO value, or "none" when there is none yet
     rsi, mfi        RSI / MFI Calculate(): a value, or "err"               *)

IndAnswer(addErr, h, v, at, atso, rsi, mfi) ==
    [addErr |-> addErr,
     hBull |-> h[1], hBear |-> h[2], vBull |-> v[1], vBear |-> v[2],
     atBull |-> at[1], atBear |-> at[2], atso |-> atso, rsi |-> rsi, mfi |-> mfi]

\* warm-up: every accessor fails
IndQuiet == IndAnswer(FALSE, <<"err", "err">>, <<"err", "err">>, <<FALSE, FALSE>>,
                      <<"none">>, <<"err">>, <<"err">>)

IndAddErr == [IndQuiet EXCEPT !.addErr = TRUE]

IndBullish == IndAnswer(FALSE, <<"yes", "no">>, <<"yes", "no">>, <<TRUE, FALSE>>,
                        <<"val", XInt(2)>>, <<"val", 75>>, <<"val", 85>>)

IndBearish == IndAnswer(FALSE, <<"no", "yes">>, <<"no", "yes">>, <<FALSE, TRUE>>,
                        <<"val", XInt(-2)>>, <<"val", 25>>, <<"val", 15>>)

\* one crossover only, a flat ATSO
IndMixed == IndAnswer(FALSE, <<"yes", "no">>, <<"err", "no">>, <<FALSE, FALSE>>,
                      <<"val", XInt(0)>>, <<"val", 50>>, <<"val", 50>>)

IndAnswers == {IndQuiet, IndAddErr, IndBullish, IndBearish, IndMixed}

\* hBull := fallback; if ok, err := X(); err == nil { hBull = hBull || ok }
OrCrossover(fallback, answer) == fallback \/ answer = "yes"

----------------------------------------------------------------------------
(* BreakoutMomentum, a BaseStrategy caller.  A strategy state st is
   [es, buf]: the executor state and the price buffer. *)

TestSymbol == "TEST"

longSignal(buf, ind) ==
    /\ OrCrossover(bullishFallback(buf), ind.hBull)
    /\ OrCrossover(bullishFallback(buf), ind.vBull)
    /\ (bullishFallback(buf) \/ ind.atBull)

shortSignal(buf, ind) ==
    /\ OrCrossover(bearishFallback(buf), ind.hBear)
    /\ OrCrossover(bearishFallback(buf), ind.vBear)
    /\ (bearishFallback(buf) \/ ind.atBear)

\* a faulty variant of openEntry: no test of the sized quantity
openEntryUnguarded(es, cfg, sym, side, price, comment) ==
    submitOrder(es, Order(sym, side, calcQty(es, cfg, price), price, comment))

\* openLong(price) / openShort(price)
openEntry(es, cfg, sym, side, price, comment) ==
    LET qty == calcQty(es, cfg, price)
    IN  IF qty <= 0 THEN es
        ELSE submitOrder(es, Order(sym, side, qty, price, comment))

\* the take-profit trigger
TakeProfitHit(qty, avg, atr, cfg, currentPrice) ==
    LET move == XMul(atr, XRat(cfg.TakeProfitPct))
    IN  IF qty > 0
        THEN XLeq(XAdd(avg, move), XInt(currentPrice))
        ELSE XLeq(XInt(currentPrice), XSub(avg, move))

\* manageTakeProfit(currentPrice)
manageTakeProfit(es, buf, cfg, sym, ind, currentPrice) ==
    LET qty == es.positions[sym]
        avg == es.avgPrice[sym]
        atr == sanitizeVolatility(buf, XAbs(ind.atso[2]), avg)
    IN  IF qty = 0 THEN es
        ELSE IF ind.atso[1] = "none" THEN es
        ELSE IF TakeProfitHit(qty, avg, atr, cfg, currentPrice)
        THEN closePosition(es, sym, currentPrice, "breakout_mom_tp")
        ELSE es

\* the first case of the switch: a long signal while flat or short
LongCase(buf, ind, posQty) == longSignal(buf, ind) /\ posQty <= 0

\* a faulty variant of ShortCase: a short signal while flat only
ShortCaseFlatOnly(buf, ind, posQty) == shortSignal(buf, ind) /\ posQty = 0

\* the second case of the switch: a short signal while flat or long
ShortCase(buf, ind, posQty) == shortSignal(buf, ind) /\ posQty >= 0

\* the body of ProcessBar after the warm-up gate
BMDecide(es, buf, cfg, sym, close, ind) ==
    LET posQty == es.positions[sym]
    IN  IF LongCase(buf, ind, posQty)
        THEN LET closed == IF posQty < 0
                           THEN closePosition(es, sym, close, "breakout_mom_close_short")
                           ELSE es
             IN  openEntry(closed, cfg, sym, Buy, close, "BreakoutMomentum entry long")
        ELSE IF ShortCase(buf, ind, posQty)
        THEN LET closed == IF posQty > 0
                           THEN closePosition(es, sym, close, "breakout_mom_close_long")
                           ELSE es
             IN  openEntry(closed, cfg, sym, Sell, close, "BreakoutMomentum entry short")
        ELSE IF posQty # 0
        THEN LET trailed == IF cfg.TrailingPct[1] > 0
                            THEN applyTrailingStop(es, cfg, sym, close)
                            ELSE es
             IN  IF cfg.TakeProfitPct[1] > 0
                 THEN manageTakeProfit(trailed, buf, cfg, sym, ind, close)
                 ELSE trailed
        ELSE es

\* BreakoutMomentum.ProcessBar(high, low, close, volume)
BMProcessBar(st, cfg, sym, close, ind) ==
    LET es0 == StartHandler(st.es)
        buf == recordPrice(st.buf, close)
    IN  IF ind.addErr THEN [es |-> es0, buf |-> st.buf]
        ELSE IF ~hasHistory(buf, WarmUp) THEN [es |-> es0, buf |-> buf]
        ELSE [es |-> BMDecide(es0, buf, cfg, sym, close, ind), buf |-> buf]

----------------------------------------------------------------------------
(* HybridTrendMeanReversion: the trend-then-mean-reversion FSM.  A state h is
   [es, buf, state, trendSide, flatBarCounter]. *)

stateIdle == "Idle"

stateTrend == "Trend"

stateRevert == "Revert"

\* trendSide before the first trend: the empty types.Side
NoSide == ""

\* const flatTolerance = 0.05
flatTolerance == <<1, 20>>

\* const flatBarThreshold = 3
flatBarThreshold == 3

\* the RSI / MFI value ProcessBar uses: 50 when Calculate fails
ValueOr50(answer) == IF answer[1] = "err" THEN 50 ELSE answer[2]

\* the thresholds ProcessBar uses: the defaults when the configured pair is inverted
RsiBand(cfg) ==
    IF cfg.RSIOverbought <= cfg.RSIOversold THEN <<70, 30>>
    ELSE <<cfg.RSIOverbought, cfg.RSIOversold>>

MfiBand(cfg) ==
    IF cfg.MFIOverbought <= cfg.MFIOversold THEN <<80, 20>>
    ELSE <<cfg.MFIOverbought, cfg.MFIOversold>>

\* delta > flatTolerance for an integer delta
AboveTolerance(delta) == delta * flatTolerance[2] > flatTolerance[1]

\* the state enterTrend leaves after its Submit call
AfterEntry == stateTrend

\* a faulty variant of enterTrend: the order without the state change
enterTrendOrderOnly(h, cfg, sym, side, price) ==
    LET qty == calcQty(h.es, cfg, price)
    IN  IF qty <= 0 THEN h
        ELSE [h EXCEPT
                !.es = submitOrder(h.es, Order(sym, side, qty, price, "HybridTrend entry"))]

\* enterTrend(side, price)
enterTrend(h, cfg, sym, side, price) ==
    LET qty == calcQty(h.es, cfg, price)
    IN  IF qty <= 0 THEN h
        ELSE [h EXCEPT
                !.es = submitOrder(h.es, Order(sym, side, qty, price, "HybridTrend entry")),
                !.state = AfterEntry,
                !.trendSide = side,
                !.flatBarCounter = 0]

\* exitTrend(price)
exitTrend(es, sym, price) ==
    IF es.positions[sym] = 0 THEN es
    ELSE closePosition(es, sym, price, "hybrid_trend_exit")

\* openOpposite(side, price)
openOpposite(es, cfg, sym, side, price) ==
    LET qty == calcQty(es, cfg, price)
    IN  IF qty <= 0 THEN es
        ELSE submitOrder(es, Order(sym, side, qty, price, "HybridRevert entry"))

\* case stateTrend: is the trend reinforced by this bar
Reinforced(h) ==
    LET trendDir   == Trend(h.buf)
        priceDelta == Abs(lastPriceChange(h.buf))
    IN  \/ h.trendSide = Buy /\ trendDir > 0 /\ AboveTolerance(priceDelta)
        \/ h.trendSide = Sell /\ trendDir < 0 /\ AboveTolerance(priceDelta)

\* the state the Trend case leaves once the flat bars have run out
AfterTimeout == stateRevert

\* a faulty variant of TrendCase: the flat-bar counter is not reset at the exit
TrendCaseCounterKept(h, sym, close) ==
    IF Reinforced(h) THEN [h EXCEPT !.flatBarCounter = 0]
    ELSE IF h.flatBarCounter + 1 >= flatBarThreshold
    THEN [h EXCEPT !.es = exitTrend(h.es, sym, close),
                   !.state = AfterTimeout,
                   !.flatBarCounter = @ + 1]
    ELSE [h EXCEPT !.flatBarCounter = @ + 1]

\* case stateTrend
TrendCase(h, sym, close) ==
    IF Reinforced(h) THEN [h EXCEPT !.flatBarCounter = 0]
    ELSE IF h.flatBarCounter + 1 >= flatBarThreshold
    THEN [h EXCEPT !.es = exitTrend(h.es, sym, close),
                   !.state = AfterTimeout,
                   !.flatBarCounter = 0]
    ELSE [h EXCEPT !.flatBarCounter = @ + 1]

\* case stateRevert: the contrarian signal for the side of the finished trend
RevertSignal(h, cfg, ind) ==
    LET deltaRaw == lastPriceChange(h.buf)
        rsiVal   == ValueOr50(ind.rsi)
        mfiVal   == ValueOr50(ind.mfi)
    IN  IF h.trendSide = Buy
        THEN /\ AboveTolerance(deltaRaw)
             /\ rsiVal >= RsiBand(cfg)[1]
             /\ mfiVal >= MfiBand(cfg)[1]
        ELSE /\ AboveTolerance(-deltaRaw)
             /\ rsiVal <= RsiBand(cfg)[2]
             /\ mfiVal <= MfiBand(cfg)[2]

\* a faulty variant of AfterOpposite: straight back into a trend
AfterOppositeTrend == stateTrend

\* the state the Revert case leaves after openOpposite
AfterOpposite == stateIdle

\* case stateRevert; posQty is the position read before the switch
RevertCase(h, cfg, sym, close, ind, posQty) ==
    LET opened ==
            IF RevertSignal(h, cfg, ind)
            THEN [h EXCEPT
                    !.es = openOpposite(h.es, cfg, sym,
                                        IF h.trendSide = Buy THEN Sell ELSE Buy, close),
                    !.state = AfterOpposite]
            ELSE h
    IN  IF posQty # 0 /\ cfg.TrailingPct[1] > 0
        THEN [opened EXCEPT !.es = applyTrailingStop(opened.es, cfg, sym, close)]
        ELSE opened

\* case stateIdle
IdleCase(h, cfg, sym, close, ind) ==
    IF OrCrossover(bullishFallback(h.buf), ind.hBull)
    THEN enterTrend(h, cfg, sym, Buy, close)
    ELSE IF OrCrossover(bearishFallback(h.buf), ind.hBear)
    THEN enterTrend(h, cfg, sym, Sell, close)
    ELSE h

\* HybridTrendMeanReversion.ProcessBar(high, low, close, volume)
HybridProcessBar(h0, cfg, sym, close, ind) ==
    LET h1 == [h0 EXCEPT !.es = StartHandler(h0.es)]
        h  == [h1 EXCEPT !.buf = recordPrice(h1.buf, close)]
    IN  IF ind.addErr THEN h1
        ELSE IF ~hasHistory(h.buf, WarmUp) THEN h
        ELSE CASE h.state = stateIdle -> IdleCase(h, cfg, sym, close, ind)
               [] h.state = stateTrend -> TrendCase(h, sym, close)
               [] h.state = stateRevert ->
                      RevertCase(h, cfg, sym, close, ind, h.es.positions[sym])

----------------------------------------------------------------------------
(* RiskParityRotation: the multi-symbol rotation scheduler.  A scheduler
   state r is [symbols, states, topK, intervalBars, barsSinceRebalance,
   target, rebalanced]: target is the target set of the last rebalance and
   rebalanced tells whether the last ProcessBar call ran one.  A SymbolState
   is [suite, score, lastBar, hasLast, prevClose, hasPrev], suite being what
   the symbol's indicator suite answers since its last Add. *)

RatAdd(a, b) == CHOOSE r \in {Rat(x[1] * y[2] + y[1] * x[2], x[2] * y[2]) : x \in {a}, y \in {b}} : TRUE

\* clamp(v, minVal, maxVal)
clamp(v, minVal, maxVal) ==
    IF RatLt(v, minVal) THEN minVal
    ELSE IF RatLt(maxVal, v) THEN maxVal
    ELSE v

\* clamp01(v)
clamp01(v) ==
    CHOOSE r \in {IF RatLt(x, <<0, 1>>) THEN <<0, 1>>
                  ELSE IF RatLt(<<1, 1>>, x) THEN <<1, 1>>
                  ELSE x : x \in {v}} : TRUE

barSnapshot(high, low, close, volume) ==
    [high |-> high, low |-> low, close |-> close, volume |-> volume]

\* the SymbolState the constructor builds: a fresh suite, score 0
NewSymbolState ==
    [suite |-> IndQuiet, score |-> <<0, 1>>, lastBar |-> barSnapshot(0, 0, 0, 0),
     hasLast |-> FALSE, prevClose |-> 0, hasPrev |-> FALSE]

\* NewRiskParityRotation(symbols, cfg, exec, topK, intervalBars, log), for a valid topK
NewRiskParityRotation(symbols, topK, intervalBars) ==
    [symbols |-> symbols,
     states |-> [s \in {symbols[i] : i \in 1..Len(symbols)} |-> NewSymbolState],
     topK |-> topK,
     intervalBars |-> intervalBars,
     barsSinceRebalance |-> 0,
     target |-> {},
     rebalanced |-> FALSE]

\* a faulty variant of ValidTopK: topK = 0 accepted
ValidTopKOrZero(symbols, topK) == ~(topK < 0 \/ topK > Len(symbols))

\* the constructor's check of topK
ValidTopK(symbols, topK) == ~(topK <= 0 \/ topK > Len(symbols))

\* const wRSI = 0.35, wMFI = 0.35, wATSO = 0.30
wRSI == <<7, 20>>

wMFI == <<7, 20>>

wATSO == <<3, 10>>

\* the indicator path of computeStrength
CompositeScore(cfg, ind) ==
    LET rsiNorm  == clamp01(Rat(ind.rsi[2] - RsiBand(cfg)[2], RsiBand(cfg)[1] - RsiBand(cfg)[2]))
        mfiNorm  == clamp01(Rat(ind.mfi[2] - MfiBand(cfg)[2], MfiBand(cfg)[1] - MfiBand(cfg)[2]))
        atsoNorm == clamp01(Rat(Abs(ind.atso[2].n), 3 * ind.atso[2].d))
    IN  RatAdd(RatAdd(RatMul(wRSI, rsiNorm), RatMul(wMFI, mfiNorm)), RatMul(wATSO, atsoNorm))

\* the fallback heuristic of computeStrength: range, momentum, volume
HeuristicScore(st) ==
    LET closePx   == IF st.lastBar.close <= 0 THEN 1 ELSE st.lastBar.close
        span      == st.lastBar.high - st.lastBar.low
        rangePerc == IF span > 0 THEN clamp01(Rat(span * 20, closePx)) ELSE <<0, 1>>
        momentum  == IF st.hasPrev /\ st.prevClose > 0
                     THEN clamp(Rat((st.lastBar.close - st.prevClose) * 20, st.prevClose),
                                <<0, 1>>, <<1, 1>>)
                     ELSE <<0, 1>>
        volumeNorm == IF st.lastBar.volume > 0
                      THEN clamp01(Rat(st.lastBar.volume, 8000))
                      ELSE <<0, 1>>
    IN  RatAdd(RatAdd(RatMul(<<3, 5>>, rangePerc), RatMul(<<3, 10>>, momentum)),
               RatMul(<<1, 10>>, volumeNorm))

\* computeStrength(state)
computeStrength(cfg, st) ==
    IF st.suite.rsi[1] = "val" /\ st.suite.mfi[1] = "val" /\ st.suite.atso[1] = "val"
    THEN CompositeScore(cfg, st.suite)
    ELSE IF ~st.hasLast THEN <<0, 1>>
    ELSE HeuristicScore(st)

\* state.suite.Add(high, low, close, volume) without error: the suite answers anew
RPSuiteAdd(r, sym, ind) == [r EXCEPT !.states[sym].suite = ind]

\* ProcessBar between the suite's Add and the rebalance test: the snapshot,
\* the bar counter and the score
RPUpdate(r, cfg, sym, bar) ==
    LET st0 == r.states[sym]
        st1 == IF st0.hasLast
               THEN [st0 EXCEPT !.prevClose = st0.lastBar.close, !.hasPrev = TRUE]
               ELSE st0
        st2 == [st1 EXCEPT !.lastBar = bar, !.hasLast = TRUE]
    IN  [r EXCEPT !.states[sym] = [st2 EXCEPT !.score = computeStrength(cfg, st2)],
                  !.barsSinceRebalance = @ + 1]

\* requiredBars := intervalBars * len(symbols), len(symbols) when that is 0
requiredBars(r) ==
    IF r.intervalBars * Len(r.symbols) = 0 THEN Len(r.symbols)
    ELSE r.intervalBars * Len(r.symbols)

\* a faulty variant of RebalanceDue: one bar late
RebalanceDueLate(r) == r.barsSinceRebalance > requiredBars(r)

RebalanceDue(r) == r.barsSinceRebalance >= requiredBars(r)

\* every order in which the members of S can come
PermSeqs(S) ==
    {p \in [1..Cardinality(S) -> S] : \A i, j \in 1..Cardinality(S) : i # j => p[i] # p[j]}

\* sort.Slice over the entries of the states map: any descending order (the
\* map is iterated in no fixed order and equal scores may come either way)
Rankings(r) ==
    {p \in PermSeqs(DOMAIN r.states) :
        \A i \in 1..(Len(p) - 1) : ~RatLt(r.states[p[i]].score, r.states[p[i + 1]].score)}

\* const strengthThreshold = 0.1
strengthThreshold == <<1, 10>>

\* a faulty variant of TargetSet: the topK first of the ranking, whatever their score
TargetSetNoThreshold(r, sorted) ==
    {sorted[i] : i \in 1..Min(r.topK, Len(sorted))}

\* the target set: the topK first of the ranking, up to the first score <= threshold
TargetSet(r, sorted) ==
    {sorted[i] : i \in {k \in 1..Min(r.topK, Len(sorted)) :
                          \A j \in 1..k : RatLt(strengthThreshold, r.states[sorted[j]].score)}}

\* the price rebalance trades a symbol at: its last close, else the last close
\* its suite holds (the close of the same bar), 0 when there is none
TradePrice(st) == st.lastBar.close

\* the side of the order that flattens a position of qty
RPExitSide(qty) == IF qty < 0 THEN Buy ELSE Sell

\* RiskParityRotation.closePosition(symbol, price)
RPClosePosition(es, sym, price) ==
    IF es.positions[sym] = 0 THEN es
    ELSE Submit(es, Order(sym, RPExitSide(es.positions[sym]), Abs(es.positions[sym]),
                          price, "RiskParity exit"))

\* one round of the closing loop of rebalance
CloseOne(es, r, target, sym) ==
    IF es.positions[sym] = 0 THEN es
    ELSE IF sym \in target THEN es
    ELSE IF TradePrice(r.states[sym]) = 0 THEN es
    ELSE RPClosePosition(es, sym, TradePrice(r.states[sym]))

RECURSIVE CloseFrom(_, _, _, _)
\* the closing loop from the i-th symbol of rp.symbols on
CloseFrom(es, r, target, i) ==
    IF i > Len(r.symbols) THEN es
    ELSE CloseFrom(CloseOne(es, r, target, r.symbols[i]), r, target, i + 1)

\* the side of an entry: the sign of ATSO, else the last price change
EntrySide(st) ==
    IF st.suite.atso[1] = "val"
    THEN (IF XLt(st.suite.atso[2], XInt(0)) THEN Sell ELSE Buy)
    ELSE IF st.hasPrev /\ st.prevClose > 0 /\ st.lastBar.close < st.prevClose THEN Sell
    ELSE Buy

\* risk.CalcQty(totalEquity, MaxRiskPerTrade / topK, StopLossPct, price, cfg) in quantity units
EntryQty(r, cfg, totalEquity, price) ==
    LET q == CalcQty(totalEquity,
                     <<cfg.MaxRiskPerTrade[1], cfg.MaxRiskPerTrade[2] * r.topK>>,
                     cfg.StopLossPct, price, cfg)
    IN  FloorDiv(q[1], q[2])

\* a faulty variant of OpenOne: a symbol that holds a position is entered again
OpenOneHeldToo(es, r, cfg, totalEquity, sym) ==
    IF TradePrice(r.states[sym]) = 0 THEN es
    ELSE IF EntryQty(r, cfg, totalEquity, TradePrice(r.states[sym])) <= 0 THEN es
    ELSE Submit(es, Order(sym, EntrySide(r.states[sym]),
                          EntryQty(r, cfg, totalEquity, TradePrice(r.states[sym])),
                          TradePrice(r.states[sym]), "RiskParity entry"))

\* one round of the opening loop of rebalance
OpenOne(es, r, cfg, totalEquity, sym) ==
    IF es.positions[sym] # 0 THEN es
    ELSE IF TradePrice(r.states[sym]) = 0 THEN es
    ELSE IF EntryQty(r, cfg, totalEquity, TradePrice(r.states[sym])) <= 0 THEN es
    ELSE Submit(es, Order(sym, EntrySide(r.states[sym]),
                          EntryQty(r, cfg, totalEquity, TradePrice(r.states[sym])),
                          TradePrice(r.states[sym]), "RiskParity entry"))

RECURSIVE OpenFrom(_, _, _, _, _, _)
\* the opening loop over the target set, iterated in the order given
OpenFrom(es, r, cfg, totalEquity, order, j) ==
    IF j > Len(order) THEN es
    ELSE OpenFrom(OpenOne(es, r, cfg, totalEquity, order[j]), r, cfg, totalEquity, order, j + 1)

\* a faulty variant of rebalance: the entries before the closes
rebalanceEntriesFirst(es, r, cfg, sorted, order) ==
    CloseFrom(OpenFrom(es, r, cfg, es.equity, order, 1), r, TargetSet(r, sorted), 1)

\* rebalance(), for one outcome of the sort and one iteration order of the target set
rebalance(es, r, cfg, sorted, order) ==
    LET closed == CloseFrom(es, r, TargetSet(r, sorted), 1)
    IN  OpenFrom(closed, r, cfg, closed.equity, order, 1)

----------------------------------------------------------------------------
(* BreakoutMomentum driven bar by bar.  The run starts after 14 accepted
   bars: until the 15th price is recorded ProcessBar returns before it reads
   anything else, so the state then is the fresh strategy with a buffer of
   14 closes. *)

\* the bars fed after the start
MaxBars == 3

\* NewMockExecutor(10_000) of the tests
StartEquity == 10000 * QtyScale

\* the configuration of the strategy tests (buildBreakoutMomentum), with the
\* trailing stop and the take profit the tests switch on
TestCfg(trailing, takeProfit) ==
    [RSIOverbought |-> 70, RSIOversold |-> 30, MFIOverbought |-> 80, MFIOversold |-> 20,
     MaxRiskPerTrade |-> <<1, 100>>, StopLossPct |-> <<3, 200>>,
     TakeProfitPct |-> takeProfit, TrailingPct |-> trailing,
     QuantityPrecision |-> 2, MinQty |-> 10, StepSize |-> 1]

BMConfigs == {TestCfg(<<0, 1>>, <<0, 1>>), TestCfg(<<1, 50>>, <<0, 1>>),
              TestCfg(<<1, 50>>, <<2, 1>>)}

\* 14 closes: rising 101..114, falling 114..101, flat
Rising == [i \in 1..(WarmUp - 1) |-> 100 + i]

Falling == [i \in 1..(WarmUp - 1) |-> 115 - i]

Flat == [i \in 1..(WarmUp - 1) |-> 100]

Histories == {Rising, Falling, Flat}

\* the closes of the bars that follow
Closes == {95, 100, 115, 118}

SizerIdle ==
    /\ qin = << >>
    /\ qout = << >>

BMOthersIdle ==
    /\ SizerIdle
    /\ fsm = << >>
    /\ RotationIdle

BMInit ==
    /\ exec = NewExecutor(StartEquity, {TestSymbol})
    /\ Cfg \in BMConfigs
    /\ prices \in Histories
    /\ bars = 0
    /\ BMOthersIdle

BMBar(close, ind) ==
    /\ bars < MaxBars
    /\ LET r == BMProcessBar([es |-> exec, buf |-> prices], Cfg, TestSymbol, close, ind)
       IN  /\ exec' = r.es
           /\ prices' = r.buf
    /\ bars' = bars + 1
    /\ UNCHANGED <<qin, qout, Cfg, fsm, rp, mu, thr>>

BMNext == \E close \in Closes, ind \in IndAnswers : BMBar(close, ind)

SpecBM == BMInit /\ [][BMNext]_vars

----------------------------------------------------------------------------
(* Properties of BaseStrategy, stated over the BreakoutMomentum runs *)

\* the call of the running handler that follows position `at` in calls, if any
CallAfter(es, at) == es.calls[at + 1]

\* the handler submitted an order right after the logged call e
Submitted(es, e) == Len(es.calls) > e.at

\* the orders a closePosition or applyTrailingStop call e submitted: the calls
\* between e.at and the next logged call of the same kind or the end
ClosesOf(es, i) ==
    LET e    == es.closeLog[i]
        next == IF i < Len(es.closeLog) THEN es.closeLog[i + 1].at ELSE Len(es.calls)
    IN  {k \in (e.at + 1)..next : es.calls[k].Comment = e.ctx}

(* C9: closePosition submits nothing when the position is zero; otherwise it
   submits exactly one order: SELL for a positive position, BUY for a
   negative one, of the position's absolute quantity, at the supplied price. *)
C9_ClosePosition ==
    \A i \in 1..Len(exec.closeLog) :
        LET e == exec.closeLog[i]
        IN  IF e.qty = 0
            THEN ClosesOf(exec, i) = {}
            ELSE /\ ClosesOf(exec, i) = {e.at + 1}
                 /\ CallAfter(exec, e.at).Side = (IF e.qty > 0 THEN Sell ELSE Buy)
                 /\ CallAfter(exec, e.at).Qty = Abs(e.qty)
                 /\ CallAfter(exec, e.at).Price = e.price
                 /\ CallAfter(exec, e.at).Symbol = TestSymbol

\* closePosition has flattened a long and, in another call, a short position
C9_Witness ==
    /\ Len(exec.closeLog) = 1
    /\ exec.closeLog[1].qty < 0
    /\ Len(exec.calls) = 2
    /\ exec.calls[1].Side = Buy
    /\ exec.positions[TestSymbol] > 0

\* 1 + TrailingPct and 1 - TrailingPct
OnePlus(r) == XFin(r[2] + r[1], r[2])

OneMinus(r) == XFin(r[2] - r[1], r[2])

\* the trailing-stop call e of the running handler closed the position
TrailClosed(es, e) ==
    /\ Submitted(es, e)
    /\ CallAfter(es, e.at).Comment = "trailing_stop"

(* C6: applyTrailingStop submits a closing order only when TrailingPct > 0
   and the position is non-zero; a long is closed at P only if
   P >= avgPrice * (1 + TrailingPct), a short only if
   P <= avgPrice * (1 - TrailingPct); with TrailingPct <= 0 or a flat
   position it submits nothing. *)
C6_TrailingStopGuard ==
    /\ \A i \in 1..Len(exec.trailLog) :
          LET e == exec.trailLog[i]
          IN  TrailClosed(exec, e) =>
                /\ Cfg.TrailingPct[1] > 0
                /\ e.qty # 0
                /\ e.qty > 0 => XLeq(XMul(e.avg, OnePlus(Cfg.TrailingPct)), XInt(e.price))
                /\ e.qty < 0 => XLeq(XInt(e.price), XMul(e.avg, OneMinus(Cfg.TrailingPct)))
    /\ \A k \in 1..Len(exec.calls) :
          exec.calls[k].Comment = "trailing_stop" =>
              \E i \in 1..Len(exec.trailLog) : exec.trailLog[i].at = k - 1

\* a long position was closed by the trailing stop
C6_Witness ==
    /\ Len(exec.trailLog) = 1
    /\ exec.trailLog[1].qty > 0
    /\ TrailClosed(exec, exec.trailLog[1])
    /\ exec.positions[TestSymbol] = 0

RECURSIVE SignedSum(_, _)
\* the position the first k accepted orders leave
SignedSum(os, k) ==
    IF k = 0 THEN 0
    ELSE SignedSum(os, k - 1) + (IF os[k].Side = Buy THEN os[k].Qty ELSE -os[k].Qty)

\* the position was opened from flat by the k-th accepted order, a SELL
OpenedFromFlatBySell(os, k) ==
    /\ k >= 1
    /\ os[k].Side = Sell
    /\ SignedSum(os, k - 1) = 0

(* C7: for a short position opened from flat by one SELL at price E, with
   TrailingPct = p > 0, applyTrailingStop(P) with P <= E * (1 - p) submits a
   closing BUY for the full held quantity. *)
C7_ShortTrailingStopFires ==
    \A i \in 1..Len(exec.trailLog) :
        LET e == exec.trailLog[i]
        IN  ( /\ Cfg.TrailingPct[1] > 0
              /\ e.qty < 0
              /\ OpenedFromFlatBySell(exec.orders, e.norders)
              /\ XLeq(XInt(e.price),
                      XMul(XInt(exec.orders[e.norders].Price), OneMinus(Cfg.TrailingPct))) )
            => /\ TrailClosed(exec, e)
               /\ CallAfter(exec, e.at).Side = Buy
               /\ CallAfter(exec, e.at).Qty = -e.qty

----------------------------------------------------------------------------
(* The hybrid FSM driven bar by bar, from the fresh strategy with a buffer
   of 14 closes (until then ProcessBar returns at the warm-up gate). *)

\* the bars fed to the FSM after the start
HyMaxBars == 6

HyConfigs == {TestCfg(<<0, 1>>, <<0, 1>>), TestCfg(<<1, 50>>, <<0, 1>>)}

HyHistories == {Rising, Falling}

HyCloses == {100, 115, 118}

HyAnswers == {IndQuiet, IndAddErr, IndBullish, IndBearish}

HyInit ==
    /\ exec = NewExecutor(StartEquity, {TestSymbol})
    /\ Cfg \in HyConfigs
    /\ prices \in HyHistories
    /\ bars = 0
    /\ fsm = [state |-> stateIdle, trendSide |-> NoSide, flatBarCounter |-> 0]
    /\ SizerIdle
    /\ RotationIdle

\* one ProcessBar call on the fields of the strategy
HyStep(close, ind) ==
    /\ LET r == HybridProcessBar([es |-> exec, buf |-> prices, state |-> fsm.state,
                                  trendSide |-> fsm.trendSide,
                                  flatBarCounter |-> fsm.flatBarCounter],
                                 Cfg, TestSymbol, close, ind)
       IN  /\ exec' = r.es
           /\ prices' = r.buf
           /\ fsm' = [state |-> r.state, trendSide |-> r.trendSide,
                      flatBarCounter |-> r.flatBarCounter]
    /\ bars' = bars + 1
    /\ UNCHANGED <<qin, qout, Cfg, rp, mu, thr>>

HyBar(close, ind) ==
    /\ bars < HyMaxBars
    /\ HyStep(close, ind)

HyNext == \E close \in HyCloses, ind \in HyAnswers : HyBar(close, ind)

SpecHybrid == HyInit /\ [][HyNext]_vars

(* C2: at the end of every ProcessBar call, if the FSM state is Idle the
   position of the strategy's symbol is zero. *)
C2_IdleIsFlat ==
    fsm.state = stateIdle => exec.positions[TestSymbol] = 0

(* C2, amended: in Idle the position is zero until the FSM has gone through a
   trend (trendSide is still unset); Idle reached again from Revert holds the
   contrarian position openOpposite opened. *)
C2_IdleIsFlatBeforeFirstTrend ==
    (fsm.state = stateIdle /\ fsm.trendSide = NoSide) => exec.positions[TestSymbol] = 0

\* Idle on a decided bar (the warm-up gate passed): a signal whose entry was sized to nothing
C2_Witness ==
    /\ fsm.state = stateIdle
    /\ fsm.trendSide = NoSide
    /\ Len(prices) >= WarmUp
    /\ exec.positions[TestSymbol] = 0

(* C3: the only state changes of the FSM are Idle->Trend, Trend->Revert and
   Revert->Idle. *)
C3_LegalTransitions ==
    [][ fsm'.state # fsm.state =>
            \/ fsm.state = stateIdle /\ fsm'.state = stateTrend
            \/ fsm.state = stateTrend /\ fsm'.state = stateRevert
            \/ fsm.state = stateRevert /\ fsm'.state = stateIdle
      ]_vars

\* back in Idle after a whole cycle
C3_Witness ==
    /\ fsm.state = stateIdle
    /\ fsm.trendSide # NoSide

----------------------------------------------------------------------------
(* The hybrid FSM on a market that gaps up after the first bar: a flat
   history at 100, a first bar at 100, then closes of 290 and 300.  A short
   opened on the first bar is then too dear to buy back: the executor drops
   the closing BUY and the FSM goes on with the position open. *)

\* the bars fed to the FSM: two Idle->Trend->Revert cycles and two bars of the second Revert
GapMaxBars == 11

GapCloses == {290, 300}

GapAnswers == {IndBullish, IndBearish}

GapInit ==
    /\ exec = NewExecutor(StartEquity, {TestSymbol})
    /\ Cfg = TestCfg(<<1, 50>>, <<0, 1>>)
    /\ prices = Flat
    /\ bars = 0
    /\ fsm = [state |-> stateIdle, trendSide |-> NoSide, flatBarCounter |-> 0]
    /\ SizerIdle
    /\ RotationIdle

GapBar(close, ind) ==
    /\ bars < GapMaxBars
    /\ HyStep(close, ind)

GapNext ==
    \E close \in (IF bars = 0 THEN {100} ELSE GapCloses), ind \in GapAnswers :
        GapBar(close, ind)

SpecGap == GapInit /\ [][GapNext]_vars

\* the last applyTrailingStop call of the handler that has just run
LastTrail(es) == es.trailLog[Len(es.trailLog)]

\* the level that call computed
LevelAt(cfg, call) == trailingStopLevel(cfg, call.avg, Sign(call.qty))

(* C8: while a position stays open, the level computed by applyTrailingStop
   on one bar and on the next never moves against the position: it never
   decreases for a long position and never increases for a short one. *)
C8_LevelNeverLoosens ==
    [][ (/\ Len(exec.trailLog) > 0
         /\ Len(exec'.trailLog) > 0
         /\ exec.positions[TestSymbol] # 0
         /\ Sign(LastTrail(exec).qty) = Sign(exec.positions[TestSymbol])
         /\ Sign(LastTrail(exec').qty) = Sign(exec.positions[TestSymbol]))
        => IF exec.positions[TestSymbol] > 0
           THEN ~XLt(LevelAt(Cfg, LastTrail(exec')), LevelAt(Cfg, LastTrail(exec)))
           ELSE ~XLt(LevelAt(Cfg, LastTrail(exec)), LevelAt(Cfg, LastTrail(exec')))
      ]_vars

----------------------------------------------------------------------------
(* The rotation scheduler fed bar by bar by one caller: two symbols, as in
   the repository's tests, each ProcessBar call one step. *)

\* the bars fed to the scheduler: two rebalances and a bar
RPMaxBars == 5

RPSymbols == <<"AAA", "BBB">>

\* a symbol outside the universe
UnknownSymbol == "ZZZ"

\* candles: the volatile and the flat bar of the tests; a bar that scores
\* exactly the threshold (volume alone); a bar after a jump of the price
VolatileBar == barSnapshot(110, 90, 100, 1500)

FlatBar == barSnapshot(101, 99, 100, 1500)

QuietBar == barSnapshot(100, 100, 100, 8000)

SpikeBar == barSnapshot(300, 300, 300, 0)

\* what a ProcessBar call is given: the candle and what the suite then answers
RPInputs ==
    {<<VolatileBar, IndQuiet>>, <<FlatBar, IndQuiet>>, <<QuietBar, IndQuiet>>,
     <<SpikeBar, IndQuiet>>, <<FlatBar, IndBearish>>, <<FlatBar, IndAddErr>>}

RPCalls ==
    ({RPSymbols[i] : i \in 1..Len(RPSymbols)} \X RPInputs)
        \cup {<<UnknownSymbol, <<FlatBar, IndQuiet>>>>}

\* no single-symbol strategy
SingleIdle ==
    /\ prices = << >>
    /\ fsm = << >>

RPInit ==
    /\ exec = NewExecutor(StartEquity, {RPSymbols[i] : i \in 1..Len(RPSymbols)})
    /\ Cfg = TestCfg(<<0, 1>>, <<0, 1>>)
    /\ \E topK \in 1..Len(RPSymbols) :
          /\ ValidTopK(RPSymbols, topK)
          /\ rp = NewRiskParityRotation(RPSymbols, topK, 1)
    /\ bars = 0
    /\ mu = 0
    /\ thr = << >>
    /\ SizerIdle
    /\ SingleIdle

\* a faulty variant of RPProcessBar: a bar of an unknown symbol is counted
RPProcessBarCountsUnknown(sym, bar, ind) ==
    IF sym \notin DOMAIN rp.states
    THEN /\ rp' = [rp EXCEPT !.rebalanced = FALSE,
                             !.barsSinceRebalance = (@ + 1) % requiredBars(rp)]
         /\ exec' = StartHandler(exec)
    ELSE IF ind.addErr
    THEN /\ rp' = [rp EXCEPT !.rebalanced = FALSE]
         /\ exec' = StartHandler(exec)
    ELSE LET u == RPUpdate(RPSuiteAdd(rp, sym, ind), Cfg, sym, bar)
         IN  IF RebalanceDue(u)
             THEN \E sorted \in Rankings(u) :
                    \E order \in PermSeqs(TargetSet(u, sorted)) :
                       /\ exec' = rebalance(StartHandler(exec), u, Cfg, sorted, order)
                       /\ rp' = [u EXCEPT !.barsSinceRebalance = 0,
                                          !.target = TargetSet(u, sorted),
                                          !.rebalanced = TRUE]
             ELSE /\ rp' = [u EXCEPT !.rebalanced = FALSE]
                  /\ exec' = StartHandler(exec)

\* a faulty variant of RPProcessBar: the bar is recorded before suite.Add is tried
RPProcessBarSnapshotFirst(sym, bar, ind) ==
    IF sym \notin DOMAIN rp.states
    THEN /\ rp' = [rp EXCEPT !.rebalanced = FALSE]
         /\ exec' = StartHandler(exec)
    ELSE IF ind.addErr
    THEN /\ rp' = [rp EXCEPT !.rebalanced = FALSE,
                             !.states[sym].lastBar = bar, !.states[sym].hasLast = TRUE]
         /\ exec' = StartHandler(exec)
    ELSE LET u == RPUpdate(RPSuiteAdd(rp, sym, ind), Cfg, sym, bar)
         IN  IF RebalanceDue(u)
             THEN \E sorted \in Rankings(u) :
                    \E order \in PermSeqs(TargetSet(u, sorted)) :
                       /\ exec' = rebalance(StartHandler(exec), u, Cfg, sorted, order)
                       /\ rp' = [u EXCEPT !.barsSinceRebalance = 0,
                                          !.target = TargetSet(u, sorted),
                                          !.rebalanced = TRUE]
             ELSE /\ rp' = [u EXCEPT !.rebalanced = FALSE]
                  /\ exec' = StartHandler(exec)

\* RiskParityRotation.ProcessBar(symbol, high, low, close, volume), lock to unlock
RPProcessBar(sym, bar, ind) ==
    IF sym \notin DOMAIN rp.states \/ ind.addErr
    THEN /\ rp' = [rp EXCEPT !.rebalanced = FALSE]
         /\ exec' = StartHandler(exec)
    ELSE LET u == RPUpdate(RPSuiteAdd(rp, sym, ind), Cfg, sym, bar)
         IN  IF RebalanceDue(u)
             THEN \E sorted \in Rankings(u) :
                    \E order \in PermSeqs(TargetSet(u, sorted)) :
                       /\ exec' = rebalance(StartHandler(exec), u, Cfg, sorted, order)
                       /\ rp' = [u EXCEPT !.barsSinceRebalance = 0,
                                          !.target = TargetSet(u, sorted),
                                          !.rebalanced = TRUE]
             ELSE /\ rp' = [u EXCEPT !.rebalanced = FALSE]
                  /\ exec' = StartHandler(exec)

RPBar(sym, bar, ind) ==
    /\ bars < RPMaxBars
    /\ RPProcessBar(sym, bar, ind)
    /\ bars' = bars + 1
    /\ UNCHANGED <<qin, qout, Cfg, prices, fsm, mu, thr>>

RPNext == \E c \in RPCalls : RPBar(c[1], c[2][1], c[2][2])

SpecRP == RPInit /\ [][RPNext]_vars

\* the universe symbols with a non-zero position
Held(es) == {s \in DOMAIN es.positions : es.positions[s] # 0}

(* C1: after every rebalance run by ProcessBar, at most topK universe
   symbols have a non-zero Executor position, whatever the Executor did with
   the close and entry orders. *)
C1_AtMostTopKPositions ==
    rp.rebalanced => Cardinality(Held(exec)) <= rp.topK

IsExit(o) == o.Comment = "RiskParity exit"

IsEntry(o) == o.Comment = "RiskParity entry"

\* the orders of a rebalance come closes first
ClosesFirst(calls) ==
    \A i, j \in 1..Len(calls) : (IsExit(calls[i]) /\ IsEntry(calls[j])) => i < j

RECURSIVE LastEntryQty(_, _, _)
\* the quantity of the last accepted entry order for sym among the first k
LastEntryQty(os, sym, k) ==
    IF k = 0 THEN 0
    ELSE IF os[k].Symbol = sym /\ IsEntry(os[k]) THEN os[k].Qty
    ELSE LastEntryQty(os, sym, k - 1)

\* a closing order o of the rebalance that led from es to the present state
GoodClose(o, es) ==
    /\ es.positions[o.Symbol] # 0
    /\ o.Symbol \notin rp'.target
    /\ o.Side = (IF es.positions[o.Symbol] > 0 THEN Sell ELSE Buy)
    /\ o.Qty = Abs(es.positions[o.Symbol])
    /\ o.Qty = LastEntryQty(es.orders, o.Symbol, Len(es.orders))
    /\ o.Price = rp'.states[o.Symbol].lastBar.close

\* the last rebalance chose a alone, a is held, and this rebalance finds b stronger
StrongestChanges(a, b) ==
    /\ a # b
    /\ rp.topK = 1
    /\ rp.target = {a}
    /\ exec.positions[a] # 0
    /\ rp'.rebalanced
    /\ RatLt(rp'.states[a].score, rp'.states[b].score)

\* exactly two orders: the close of a, then the entry for b
CloseThenEntry(calls, a, b) ==
    /\ Len(calls) = 2
    /\ IsExit(calls[1]) /\ calls[1].Symbol = a
    /\ IsEntry(calls[2]) /\ calls[2].Symbol = b

(* C10: within one rebalance every closing order is submitted before any
   entry order; each closing order is for a held symbol outside the target
   set, on the side opposite to the position, for the absolute held quantity
   (the quantity of the order that opened it), at the symbol's last close;
   with two symbols and topK = 1 a change of the strongest symbol from A to B
   yields exactly two orders: the close of A, then the entry for B. *)
C10_ClosesThenEntries ==
    [][ rp'.rebalanced =>
          /\ ClosesFirst(exec'.calls)
          /\ \A k \in 1..Len(exec'.calls) :
                IsExit(exec'.calls[k]) => GoodClose(exec'.calls[k], exec)
          /\ \A a, b \in DOMAIN rp.states :
                StrongestChanges(a, b) => CloseThenEntry(exec'.calls, a, b)
      ]_vars

\* b is entered by the rebalance: it is in the new target set, flat, and sized above zero
Enterable(b) ==
    /\ b \in rp'.target
    /\ exec.positions[b] = 0
    /\ EntryQty(rp', Cfg, CloseFrom(exec, rp', rp'.target, 1).equity,
                TradePrice(rp'.states[b])) > 0

(* C10, amended: as above, but on a change of the strongest symbol from A
   (held) to B the rebalance submits the close of A, and it submits the entry
   for B, after it and as the only other order, exactly when B's score
   exceeds the strength threshold, B holds no position and B's sized quantity
   is positive; otherwise it submits no entry at all. *)
C10_ClosesThenEntriesWhenEnterable ==
    [][ rp'.rebalanced =>
          /\ ClosesFirst(exec'.calls)
          /\ \A k \in 1..Len(exec'.calls) :
                IsExit(exec'.calls[k]) => GoodClose(exec'.calls[k], exec)
          /\ \A a, b \in DOMAIN rp.states :
                StrongestChanges(a, b) =>
                    /\ \E k \in 1..Len(exec'.calls) :
                          IsExit(exec'.calls[k]) /\ exec'.calls[k].Symbol = a
                    /\ IF Enterable(b)
                       THEN CloseThenEntry(exec'.calls, a, b)
                       ELSE \A k \in 1..Len(exec'.calls) : ~IsEntry(exec'.calls[k])
      ]_vars

\* a switch: the rebalance closed one symbol and entered the other
C10_Witness ==
    /\ rp.rebalanced
    /\ rp.topK = 1
    /\ Len(exec.calls) = 2
    /\ IsExit(exec.calls[1])
    /\ IsEntry(exec.calls[2])
    /\ exec.calls[1].Symbol # exec.calls[2].Symbol

----------------------------------------------------------------------------
(* The rotation scheduler called from two feed threads.  Each thread is at
   one place of ProcessBar; the steps between Lock and Unlock are those of
   the code, the loops of rebalance one round at a time. *)

\* the ProcessBar calls made by the threads together
ConcMaxCalls == 5

Threads == {1, 2}

\* outside ProcessBar
IdleThread ==
    [pc |-> "idle", sym |-> "", bar |-> barSnapshot(0, 0, 0, 0), ind |-> IndQuiet,
     target |-> {}, order |-> << >>, i |-> 0, totalEquity |-> 0]

ConcCalls ==
    {<<"AAA", <<VolatileBar, IndQuiet>>>>, <<"AAA", <<QuietBar, IndQuiet>>>>,
     <<"BBB", <<VolatileBar, IndQuiet>>>>, <<"BBB", <<FlatBar, IndAddErr>>>>,
     <<UnknownSymbol, <<FlatBar, IndQuiet>>>>}

\* the places between rp.mu.Lock() and rp.mu.Unlock()
InsidePcs == {"lookup", "add", "update", "rank", "close", "open", "reset", "unlock"}

\* the places of rebalance() and of the reset of the counter that ends it
RebalancePcs == {"rank", "close", "open", "reset"}

ConcInit ==
    /\ exec = NewExecutor(StartEquity, {RPSymbols[i] : i \in 1..Len(RPSymbols)})
    /\ Cfg = TestCfg(<<0, 1>>, <<0, 1>>)
    /\ rp = NewRiskParityRotation(RPSymbols, 1, 1)
    /\ bars = 0
    /\ mu = 0
    /\ thr = [t \in Threads |-> IdleThread]
    /\ SizerIdle
    /\ SingleIdle

\* a faulty variant of CanLock: a lock that excludes nobody
CanLockAlways(m) == TRUE

\* sync.RWMutex.Lock() can return: nobody holds the mutex
CanLock(m) == m = 0

\* a thread calls ProcessBar(symbol, high, low, close, volume)
ConcCall(t, c) ==
    /\ thr[t].pc = "idle"
    /\ bars < ConcMaxCalls
    /\ thr' = [thr EXCEPT ![t] = [IdleThread EXCEPT !.pc = "lock", !.sym = c[1],
                                                    !.bar = c[2][1], !.ind = c[2][2]]]
    /\ bars' = bars + 1
    /\ UNCHANGED <<qin, qout, exec, Cfg, prices, fsm, rp, mu>>

\* rp.mu.Lock()
ConcLock(t) ==
    /\ thr[t].pc = "lock"
    /\ CanLock(mu)
    /\ mu' = t
    /\ thr' = [thr EXCEPT ![t].pc = "lookup"]
    /\ UNCHANGED <<qin, qout, exec, Cfg, prices, bars, fsm, rp>>

\* a faulty variant of ConcLookup: the unknown-symbol path returns without Unlock
ConcLookupKeepsLock(t) ==
    /\ thr[t].pc = "lookup"
    /\ IF thr[t].sym \notin DOMAIN rp.states
       THEN /\ mu' = mu
            /\ thr' = [thr EXCEPT ![t].pc = "idle"]
            /\ rp' = [rp EXCEPT !.rebalanced = FALSE]
       ELSE /\ thr' = [thr EXCEPT ![t].pc = "add"]
            /\ UNCHANGED <<mu, rp>>
    /\ UNCHANGED <<qin, qout, exec, Cfg, prices, bars, fsm>>

\* state, ok := rp.states[symbol]; unknown symbol: Unlock and return
ConcLookup(t) ==
    /\ thr[t].pc = "lookup"
    /\ IF thr[t].sym \notin DOMAIN rp.states
       THEN /\ mu' = 0
            /\ thr' = [thr EXCEPT ![t].pc = "idle"]
            /\ rp' = [rp EXCEPT !.rebalanced = FALSE]
       ELSE /\ thr' = [thr EXCEPT ![t].pc = "add"]
            /\ UNCHANGED <<mu, rp>>
    /\ UNCHANGED <<qin, qout, exec, Cfg, prices, bars, fsm>>

\* state.suite.Add(...); on an error: Unlock, log and return
ConcAdd(t) ==
    /\ thr[t].pc = "add"
    /\ IF thr[t].ind.addErr
       THEN /\ mu' = 0
            /\ thr' = [thr EXCEPT ![t].pc = "idle"]
            /\ rp' = [rp EXCEPT !.rebalanced = FALSE]
       ELSE /\ rp' = RPSuiteAdd(rp, thr[t].sym, thr[t].ind)
            /\ thr' = [thr EXCEPT ![t].pc = "update"]
            /\ mu' = mu
    /\ UNCHANGED <<qin, qout, exec, Cfg, prices, bars, fsm>>

\* the snapshot, barsSinceRebalance++, the score, and the test for a rebalance
ConcUpdate(t) ==
    /\ thr[t].pc = "update"
    /\ LET u == RPUpdate(rp, Cfg, thr[t].sym, thr[t].bar)
       IN  /\ rp' = [u EXCEPT !.rebalanced = FALSE]
           /\ thr' = [thr EXCEPT ![t].pc = IF RebalanceDue(u) THEN "rank" ELSE "unlock"]
    /\ UNCHANGED <<qin, qout, exec, Cfg, prices, bars, fsm, mu>>

\* rebalance(): the sort and the target set
ConcRank(t) ==
    /\ thr[t].pc = "rank"
    /\ \E sorted \in Rankings(rp) :
          thr' = [thr EXCEPT ![t].pc = "close", ![t].target = TargetSet(rp, sorted),
                             ![t].i = 1]
    /\ UNCHANGED <<qin, qout, exec, Cfg, prices, bars, fsm, rp, mu>>

\* rebalance(): one round of the closing loop; after the last, Equity() is read
ConcClose(t) ==
    /\ thr[t].pc = "close"
    /\ IF thr[t].i <= Len(rp.symbols)
       THEN /\ exec' = CloseOne(exec, rp, thr[t].target, rp.symbols[thr[t].i])
            /\ thr' = [thr EXCEPT ![t].i = @ + 1]
       ELSE /\ exec' = exec
            /\ \E order \in PermSeqs(thr[t].target) :
                  thr' = [thr EXCEPT ![t].pc = "open", ![t].order = order, ![t].i = 1,
                                     ![t].totalEquity = exec.equity]
    /\ UNCHANGED <<qin, qout, Cfg, prices, bars, fsm, rp, mu>>

\* rebalance(): one round of the opening loop
ConcOpen(t) ==
    /\ thr[t].pc = "open"
    /\ IF thr[t].i <= Len(thr[t].order)
       THEN /\ exec' = OpenOne(exec, rp, Cfg, thr[t].totalEquity, thr[t].order[thr[t].i])
            /\ thr' = [thr EXCEPT ![t].i = @ + 1]
       ELSE /\ exec' = exec
            /\ thr' = [thr EXCEPT ![t].pc = "reset"]
    /\ UNCHANGED <<qin, qout, Cfg, prices, bars, fsm, rp, mu>>

\* rp.barsSinceRebalance = 0
ConcReset(t) ==
    /\ thr[t].pc = "reset"
    /\ rp' = [rp EXCEPT !.barsSinceRebalance = 0, !.target = thr[t].target,
                        !.rebalanced = TRUE]
    /\ thr' = [thr EXCEPT ![t].pc = "unlock"]
    /\ UNCHANGED <<qin, qout, exec, Cfg, prices, bars, fsm, mu>>

\* rp.mu.Unlock() at the end of ProcessBar
ConcUnlock(t) ==
    /\ thr[t].pc = "unlock"
    /\ mu' = 0
    /\ thr' = [thr EXCEPT ![t].pc = "idle"]
    /\ UNCHANGED <<qin, qout, exec, Cfg, prices, bars, fsm, rp>>

ConcNext ==
    \E t \in Threads :
        \/ \E c \in ConcCalls : ConcCall(t, c)
        \/ ConcLock(t)
        \/ ConcLookup(t)
        \/ ConcAdd(t)
        \/ ConcUpdate(t)
        \/ ConcRank(t)
        \/ ConcClose(t)
        \/ ConcOpen(t)
        \/ ConcReset(t)
        \/ ConcUnlock(t)

SpecConc == ConcInit /\ [][ConcNext]_vars

\* the threads between Lock and Unlock
Inside == {t \in Threads : thr[t].pc \in InsidePcs}

\* the threads that take the step
Stepping == {t \in Threads : thr'[t] # thr[t]}

(* C4: with ProcessBar called from several threads, at most one call at a
   time is in the section that changes a SymbolState, the bar counter and
   the scores and that runs rebalance; while a rebalance runs no step of
   another call is taken inside that section, and every change of the
   scheduler's state and every Executor call is a step of the one thread
   that holds the lock. *)
C4_RebalanceSerialized ==
    /\ [](Cardinality(Inside) <= 1)
    /\ [][ /\ \A t \in Threads :
                thr[t].pc \in RebalancePcs =>
                    \A u \in Stepping : u = t \/ (thr[u].pc = "idle" /\ thr'[u].pc = "lock")
           /\ (rp' # rp \/ exec' # exec) => (Stepping \subseteq Inside /\ Stepping = {mu})
         ]_vars

\* a thread waits for the lock while the other, in its second rebalance, has
\* submitted the close and the entry
C4_Witness ==
    \E t, u \in Threads :
        /\ thr[t].pc = "open"
        /\ thr[t].i = 2
        /\ Len(exec.calls) = 3
        /\ IsExit(exec.calls[2])
        /\ IsEntry(exec.calls[3])
        /\ thr[u].pc = "lock"

----------------------------------------------------------------------------
(* The executors on their own: a sequence of Submit calls with orders drawn
   from small sets, on a PaperExecutor or on a MockExecutor.  qin holds the
   implementation, the order of the last call, whether the log line of a
   rejected BUY could be written, and the executor state before the call;
   qout holds what the call returned. *)

ExecMaxCalls == 3

ExecStartEquity == 1000

ExecSymbols == {"AAA", "BBB"}

ExecImpls == {"paper", "mock"}

ExecQtys == {0, 1, 2}

ExecPrices == {500, 600}

\* log.Output(2, msg): the error of the write to the logger's output
LogOutput(written) == IF written THEN "nil" ELSE "error"

\* the BUY of o is refused for lack of cash
Rejected(es, o) ==
    o.Qty # 0 /\ o.Side = Buy /\ InsufficientCash(o.Price * o.Qty, es.equity)

\* what Submit(o) returns
SubmitResult(impl, es, o, written) ==
    IF o.Qty = 0 THEN "nil"
    ELSE IF Rejected(es, o)
         THEN IF impl = "paper" THEN LogOutput(written) ELSE "nil"
         ELSE "nil"

ExecInit ==
    /\ exec = NewExecutor(ExecStartEquity, ExecSymbols)
    /\ \E impl \in ExecImpls :
          qin = [impl |-> impl, o |-> Order("AAA", Buy, 0, 0, ""),
                 written |-> TRUE, before |-> exec]
    /\ qout = "none"
    /\ bars = 0
    /\ Cfg = << >>
    /\ SingleIdle
    /\ RotationIdle

\* one Submit call; the log line is only written on the rejection path
ExecSubmit ==
    /\ bars < ExecMaxCalls
    /\ \E sym \in ExecSymbols, side \in {Buy, Sell}, q \in ExecQtys,
          p \in ExecPrices, written \in BOOLEAN :
          LET o == Order(sym, side, q, p, "") IN
          /\ (Rejected(exec, o) /\ qin.impl = "paper") \/ written
          /\ qin' = [qin EXCEPT !.o = o, !.written = written, !.before = exec]
          /\ qout' = SubmitResult(qin.impl, exec, o, written)
          /\ exec' = Submit(StartHandler(exec), o)
    /\ bars' = bars + 1
    /\ UNCHANGED <<Cfg, prices, fsm, rp, mu, thr>>

ExecNext == ExecSubmit

SpecExec == ExecInit /\ [][ExecNext]_vars

\* the last call was a BUY whose cost exceeded the equity
LastRejected == bars > 0 /\ Rejected(qin.before, qin.o)

(* C11: a BUY whose cost (price * qty) exceeds the current equity is dropped:
   Submit returns no error, equity and every symbol's position and average
   price are as before the call, and the next order has the effect it would
   have had without the dropped one. *)
C11_InsufficientCashDropped ==
    /\ [](LastRejected =>
            /\ qout = "nil"
            /\ exec.equity = qin.before.equity
            /\ exec.positions = qin.before.positions
            /\ exec.avgPrice = qin.before.avgPrice
            /\ exec.orders = qin.before.orders)
    /\ [][LastRejected => exec' = Submit(StartHandler(qin.before), qin'.o)]_vars

\* the part of C11 about the executor's state alone
C11_StateKept ==
    /\ [](LastRejected =>
            /\ exec.equity = qin.before.equity
            /\ exec.positions = qin.before.positions
            /\ exec.avgPrice = qin.before.avgPrice
            /\ exec.orders = qin.before.orders)
    /\ [][LastRejected => exec' = Submit(StartHandler(qin.before), qin'.o)]_vars

\* the last call was accepted and opened a position from flat
LastOpenedFromFlat ==
    /\ bars > 0
    /\ qin.o.Qty # 0
    /\ ~Rejected(qin.before, qin.o)
    /\ qin.before.positions[qin.o.Symbol] = 0

(* C12: after an accepted order opens a position from flat with quantity q
   at price P, Position(symbol) is +q for a BUY, -q for a SELL, and the
   average price is exactly P, whatever orders left the symbol flat before. *)
C12_OpenFromFlat ==
    LastOpenedFromFlat =>
        /\ exec.positions[qin.o.Symbol] =
              (IF qin.o.Side = Buy THEN qin.o.Qty ELSE -qin.o.Qty)
        /\ exec.avgPrice[qin.o.Symbol] = XInt(qin.o.Price)

\* the same for a BUY as the first order on its symbol
C12_FirstBuy ==
    (LastOpenedFromFlat /\ qin.o.Side = Buy
        /\ qin.before.avgPrice[qin.o.Symbol] = XInt(0)) =>
        /\ exec.positions[qin.o.Symbol] = qin.o.Qty
        /\ exec.avgPrice[qin.o.Symbol] = XInt(qin.o.Price)

\* a BUY that re-opens a symbol closed before stores NaN
C12_ReopenIsNaN ==
    (LastOpenedFromFlat /\ qin.o.Side = Buy
        /\ qin.before.avgPrice[qin.o.Symbol] # XInt(0)) =>
        exec.avgPrice[qin.o.Symbol] = XNaN

\* a SELL as the first order on its symbol stores -P
C12_FirstSellIsNegative ==
    (LastOpenedFromFlat /\ qin.o.Side = Sell
        /\ qin.before.avgPrice[qin.o.Symbol] = XInt(0)) =>
        exec.avgPrice[qin.o.Symbol] = XInt(-qin.o.Price)

----------------------------------------------------------------------------
(* The three order sources side by side: a run is a BreakoutMomentum (the
   BaseStrategy helpers), a HybridTrendMeanReversion or a RiskParityRotation,
   chosen at construction, fed AllMaxBars bars at most. *)

AllMaxBars == 4

IsSingle == DOMAIN rp = {}

IsHybrid == DOMAIN fsm # {}

\* the test configuration, and the same with a minimum quantity of 50 that
\* the sizing of a later entry does not reach
AllConfigs ==
    {TestCfg(<<1, 50>>, <<0, 1>>),
     [TestCfg(<<1, 50>>, <<0, 1>>) EXCEPT !.MinQty = 50 * QtyScale]}

AllInit ==
    /\ Cfg \in AllConfigs
    /\ bars = 0
    /\ SizerIdle
    /\ mu = 0
    /\ thr = << >>
    /\ \/ /\ exec = NewExecutor(StartEquity, {TestSymbol})
          /\ prices \in Histories
          /\ fsm = << >>
          /\ rp = << >>
       \/ /\ exec = NewExecutor(StartEquity, {TestSymbol})
          /\ prices \in HyHistories
          /\ fsm = [state |-> stateIdle, trendSide |-> NoSide, flatBarCounter |-> 0]
          /\ rp = << >>
       \/ /\ exec = NewExecutor(StartEquity, {RPSymbols[i] : i \in 1..Len(RPSymbols)})
          /\ \E topK \in 1..Len(RPSymbols) :
                /\ ValidTopK(RPSymbols, topK)
                /\ rp = NewRiskParityRotation(RPSymbols, topK, 1)
          /\ SingleIdle

AllNext ==
    \/ IsSingle /\ ~IsHybrid /\ bars < AllMaxBars /\ BMNext
    \/ IsSingle /\ IsHybrid /\ bars < AllMaxBars /\ HyNext
    \/ ~IsSingle /\ bars < AllMaxBars /\ RPNext

SpecAll == AllInit /\ [][AllNext]_vars

(* C13: every order that BaseStrategy, HybridTrendMeanReversion or
   RiskParityRotation passes to Executor.Submit has a quantity strictly
   greater than 0. *)
C13_PositiveQty ==
    \A i \in 1..Len(exec.calls) : exec.calls[i].Qty > 0

\* a handler of each kind has passed an order to Submit: a single-symbol
\* strategy a closing order and an entry, the hybrid FSM the close of its
\* trend position, the rotation a close followed by an entry
C13_WitnessReversal ==
    /\ IsSingle /\ ~IsHybrid
    /\ Len(exec.calls) = 2
    /\ Len(exec.closeLog) > 0
    /\ exec.closeLog[1].qty # 0

C13_WitnessHybrid ==
    /\ IsHybrid
    /\ Len(exec.calls) > 0
    /\ Len(exec.closeLog) > 0
    /\ exec.closeLog[1].qty # 0

C13_Witness ==
    /\ ~IsSingle
    /\ Len(exec.calls) = 2
    /\ IsExit(exec.calls[1])
    /\ IsEntry(exec.calls[2])

----------------------------------------------------------------------------
(* The price buffer on its own: newPriceBuffer(max), then a sequence of Add
   calls with prices drawn from a small set.  prices is p.buf, qin holds
   p.max and every price added so far, qout what Trend() returns on the
   buffer. *)

BufMaxAdds == 8

\* the argument of newPriceBuffer: 0 selects the default capacity
BufMaxes == {0, 3, 7}

BufPrices == {99, 100, 101}

\* the capacity newPriceBuffer(max) stores
newPriceBuffer(max) == IF max <= 0 THEN 16 ELSE max

BufInit ==
    /\ \E max \in BufMaxes : qin = [max |-> newPriceBuffer(max), hist |-> << >>]
    /\ prices = << >>
    /\ qout = [trend |-> Trend(<< >>)]
    /\ bars = 0
    /\ exec = << >>
    /\ Cfg = << >>
    /\ fsm = << >>
    /\ RotationIdle

\* Add(v), then Trend()
BufAddCall ==
    /\ bars < BufMaxAdds
    /\ \E v \in BufPrices :
          /\ prices' = BufAdd(prices, v, qin.max)
          /\ qin' = [qin EXCEPT !.hist = Append(@, v)]
    /\ qout' = [trend |-> Trend(prices')]
    /\ bars' = bars + 1
    /\ UNCHANGED <<exec, Cfg, fsm, rp, mu, thr>>

BufNext == BufAddCall

SpecBuf == BufInit /\ [][BufNext]_vars

(* C14: after any sequence of Add calls the buffer holds at most `capacity`
   prices, and they are the most recent min(n, capacity) of the n prices
   added, in arrival order. *)
C14_RollingWindow ==
    LET n == Len(qin.hist)
        k == Len(prices)
    IN  /\ k <= qin.max
        /\ k = Min(n, qin.max)
        /\ \A i \in 1..k : prices[i] = qin.hist[n - k + i]

\* more prices than the capacity were added, and the evicted ones differ
\* from the ones kept
C14_Witness ==
    /\ qin.max = 3
    /\ Len(qin.hist) = 5
    /\ qin.hist[1] = 99 /\ qin.hist[2] = 100
    /\ prices = <<101, 99, 100>>

\* the transitions Trend() looks at, by the direction of the move
TrendMoves(buf, dir) ==
    LET n == Len(buf)
        L == Min(6, n - 1)
    IN  {i \in (n - L + 1)..n : Sign(buf[i] - buf[i - 1]) = dir}

(* C15: Trend() looks at the last L = min(6, len-1) transitions, scores +1
   per rise and -1 per fall, and returns +1 if score >= max(2, L/3), -1 if
   score <= -max(2, L/3), 0 otherwise and when there are fewer than two
   samples; the result is always -1, 0 or 1. *)
C15_Trend ==
    LET n     == Len(prices)
        L     == Min(6, n - 1)
        score == Cardinality(TrendMoves(prices, 1)) - Cardinality(TrendMoves(prices, -1))
        t     == Max(2, L \div 3)
    IN  /\ qout.trend \in {-1, 0, 1}
        /\ qout.trend = (IF n < 2 THEN 0
                         ELSE IF score >= t THEN 1
                         ELSE IF score <= -t THEN -1
                         ELSE 0)

\* an upward trend over six transitions with falls among them: score exactly 2
C15_Witness ==
    /\ Len(prices) = 7
    /\ Cardinality(TrendMoves(prices, 1)) = 4
    /\ Cardinality(TrendMoves(prices, -1)) = 2
    /\ qout.trend = 1

----------------------------------------------------------------------------
(* float64 arithmetic, for the computations in which rounding decides the
   result.  A natural number is a sequence of limbs of LimbBits bits, least
   significant first, without leading zero limbs; a double >= 0 is [m, e]:
   the odd mantissa m (at most MantissaBits bits) and the exponent e of the
   value m * 2^e; zero is [m |-> << >>, e |-> 0].  Every operation computes
   the exact result and rounds it to nearest, ties to even.  Overflow and
   subnormals are out of the range of the prices used. *)

MantissaBits == 53

RECURSIVE Pow2(_)
Pow2(k) == IF k <= 0 THEN 1 ELSE 2 * Pow2(k - 1)

LimbBits == 3 * 5

LimbBase == Pow2(LimbBits)

RECURSIVE BigOf(_)
\* the limbs of a small natural number
BigOf(k) == IF k = 0 THEN << >> ELSE <<k % LimbBase>> \o BigOf(k \div LimbBase)

RECURSIVE BigStrip(_)
\* without leading zero limbs
BigStrip(a) ==
    IF Len(a) = 0 THEN << >>
    ELSE IF a[Len(a)] = 0 THEN BigStrip(SubSeq(a, 1, Len(a) - 1))
    ELSE a

RECURSIVE BigAddC(_, _, _)
BigAddC(a, b, c) ==
    IF a = << >> /\ b = << >> THEN BigOf(c)
    ELSE LET x == IF a = << >> THEN 0 ELSE Head(a)
             y == IF b = << >> THEN 0 ELSE Head(b)
             s == x + y + c
         IN  <<s % LimbBase>> \o BigAddC(IF a = << >> THEN a ELSE Tail(a),
                                        IF b = << >> THEN b ELSE Tail(b),
                                        s \div LimbBase)

BigAdd(a, b) == BigAddC(a, b, 0)

RECURSIVE BigMulC(_, _, _)
BigMulC(k, a, c) ==
    IF a = << >> THEN BigOf(c)
    ELSE LET p == k * Head(a) + c
         IN  <<p % LimbBase>> \o BigMulC(k, Tail(a), p \div LimbBase)

\* k * a for a natural number k below LimbBase
BigMulSmall(k, a) == IF k = 0 THEN << >> ELSE BigMulC(k, a, 0)

\* a * 2^s
BigShiftLeft(a, s) ==
    IF a = << >> THEN a
    ELSE [i \in 1..(s \div LimbBits) |-> 0] \o BigMulC(Pow2(s % LimbBits), a, 0)

RECURSIVE SmallBitLen(_)
SmallBitLen(k) == IF k = 0 THEN 0 ELSE 1 + SmallBitLen(k \div 2)

\* the number of bits of a
BitLen(a) == IF a = << >> THEN 0 ELSE LimbBits * (Len(a) - 1) + SmallBitLen(a[Len(a)])

\* bit i of a, bit 1 the least significant
Bit(a, i) == (a[(i - 1) \div LimbBits + 1] \div Pow2((i - 1) % LimbBits)) % 2

\* floor(a / 2^d)
BigShiftRight(a, d) ==
    LET q == d \div LimbBits
        r == d % LimbBits
        limb(i) == IF i <= Len(a) THEN a[i] ELSE 0
    IN  IF Len(a) <= q THEN << >>
        ELSE BigStrip([i \in 1..(Len(a) - q) |->
                          limb(i + q) \div Pow2(r)
                          + (limb(i + q + 1) % Pow2(r)) * Pow2(LimbBits - r)])

RECURSIVE BigCompare(_, _, _)
\* the sign of a - b, comparing from limb i down (a and b of the same length)
BigCompare(a, b, i) ==
    IF i = 0 THEN 0
    ELSE IF a[i] # b[i] THEN Sign(a[i] - b[i])
    ELSE BigCompare(a, b, i - 1)

\* the double of value a * 2^e with its mantissa made odd
Canonical(a, e) ==
    IF a = << >> THEN [m |-> << >>, e |-> 0]
    ELSE LET tz == CHOOSE z \in 0..(BitLen(a) - 1) :
                       Bit(a, z + 1) = 1 /\ \A j \in 1..z : Bit(a, j) = 0
         IN  [m |-> BigShiftRight(a, tz), e |-> e + tz]

\* round the exact value (a + a non-zero fraction iff sticky) * 2^e to a double
RoundToDouble(a, e, sticky) ==
    IF BitLen(a) <= MantissaBits THEN Canonical(a, e)
    ELSE LET d     == BitLen(a) - MantissaBits
             kept  == BigShiftRight(a, d)
             guard == Bit(a, d)
             rest  == sticky \/ \E i \in 1..(d - 1) : Bit(a, i) = 1
             up    == guard = 1 /\ (rest \/ Bit(kept, 1) = 1)
         IN  Canonical(IF up THEN BigAdd(kept, <<1>>) ELSE kept, e + d)

\* x + y for doubles x, y >= 0 (or the exact value of a product)
FAdd(x, y) ==
    IF x.m = << >> THEN RoundToDouble(y.m, y.e, FALSE)
    ELSE IF y.m = << >> THEN RoundToDouble(x.m, x.e, FALSE)
    ELSE LET e0 == Min(x.e, y.e)
         IN  RoundToDouble(BigAdd(BigShiftLeft(x.m, x.e - e0),
                                  BigShiftLeft(y.m, y.e - e0)), e0, FALSE)

\* float64(k) * y for a small natural number k (float64(k) is exact)
FMulSmall(k, y) == RoundToDouble(BigMulSmall(k, y.m), y.e, FALSE)

\* the sign of x - y for x, y >= 0; the rounded difference has the same sign
FCompare(x, y) ==
    LET e0 == Min(x.e, y.e)
        a  == BigShiftLeft(x.m, x.e - e0)
        b  == BigShiftLeft(y.m, y.e - e0)
    IN  IF BitLen(a) # BitLen(b) THEN Sign(BitLen(a) - BitLen(b))
        ELSE BigCompare(a, b, Len(a))

RECURSIVE FractionOf(_, _, _, _)
\* long division: s more limbs of the quotient below `limbs`, r the remainder
FractionOf(limbs, r, d, s) ==
    IF s = 0 THEN [m |-> limbs, r |-> r]
    ELSE FractionOf(<<(r * LimbBase) \div d>> \o limbs, (r * LimbBase) % d, d, s - 1)

\* the double nearest to the decimal number n / d (n >= 0, 0 < d <= 100):
\* the quotient with five limbs of fraction, rounded
Float64(n, d) ==
    LET q == FractionOf(BigOf(n \div d), n % d, d, 5)
    IN  RoundToDouble(BigStrip(q.m), -(5 * LimbBits), q.r # 0)
\* prices of the flat-series runs are decimal numbers in hundredths
PriceDen == 10 * 10

\* x*y as the build computes it inside a sum: rounded on its own, or exact
\* when the compiler fuses the multiplication with the addition that follows
\* (the Go specification allows the fusion; amd64 builds do not fuse)
Product(k, y, fused) ==
    IF fused THEN [m |-> BigMulSmall(k, y.m), e |-> y.e] ELSE FMulSmall(k, y)

RECURSIVE SlopeSums(_, _, _, _, _)
\* the loop of Slope() from buffer index i on, idx its counter:
\* sumY += y; sumXY += x*y
SlopeSums(buf, i, idx, acc, build) ==
    IF i > Len(buf) THEN acc
    ELSE LET y == Float64(buf[i], PriceDen)
         IN  SlopeSums(buf, i + 1, idx + 1,
                       [sumY  |-> FAdd(acc.sumY, y),
                        sumXY |-> FAdd(acc.sumXY, Product(idx, y, build # "separate"))],
                       build)

\* the sign of what Slope() returns on a buffer of non-negative prices:
\* (count*sumXY - sumX*sumY) / den with den > 0
SlopeSign(buf, build) ==
    LET n     == Len(buf)
        lb    == Lookback(buf, StatLookback)
        start == n - lb
        count == lb + 1
        sumX  == (lb * count) \div 2
        sumXX == SumOver([x \in 1..lb |-> x * x], 1, lb)
        den   == count * sumXX - sumX * sumX
        zero  == [m |-> << >>, e |-> 0]
        sums  == SlopeSums(buf, start, 0, [sumY |-> zero, sumXY |-> zero], build)
    IN  IF n < 2 THEN 0
        ELSE IF den = 0 THEN 0
        ELSE FCompare(Product(count, sums.sumXY, build = "fuseFirst"),
                      Product(sumX, sums.sumY, build = "fuseSecond"))

----------------------------------------------------------------------------
(* A flat series: one price, added over and over to a fresh buffer; after
   each Add the three statistics are read.  qin holds the capacity, the
   price (in hundredths) and the build; qout the sign of Slope(), and
   Volatility() and Trend(). *)

FlatMaxAdds == 12

FlatPrices == {10, 50, 9999, 10000, 10010, 1234567}

Builds == {"separate", "fuseFirst", "fuseSecond"}

Stats(buf, build) ==
    [slope |-> SlopeSign(buf, build), vol |-> Volatility(buf), trend |-> Trend(buf)]

FlatInit ==
    /\ \E max \in BufMaxes, p \in FlatPrices, b \in Builds :
          qin = [max |-> newPriceBuffer(max), price |-> p, build |-> b]
    /\ prices = << >>
    /\ qout = Stats(<< >>, qin.build)
    /\ bars = 0
    /\ exec = << >>
    /\ Cfg = << >>
    /\ fsm = << >>
    /\ RotationIdle

\* Add(price), then Slope(), Volatility() and Trend()
FlatAdd ==
    /\ bars < FlatMaxAdds
    /\ prices' = BufAdd(prices, qin.price, qin.max)
    /\ qout' = Stats(prices', qin.build)
    /\ bars' = bars + 1
    /\ UNCHANGED <<qin, exec, Cfg, fsm, rp, mu, thr>>

FlatNext == FlatAdd

SpecFlat == FlatInit /\ [][FlatNext]_vars

(* C16: after N >= 10 identical prices were added to a price buffer, Slope()
   returns exactly 0, Volatility() returns exactly 0 and Trend() returns 0. *)
C16_FlatSeries ==
    bars >= 10 => (qout.slope = 0 /\ qout.vol = <<0, 1>> /\ qout.trend = 0)

\* the same without the slope
C16_FlatVolatilityTrend ==
    bars >= 10 => (qout.vol = <<0, 1>> /\ qout.trend = 0)

\* the slope of a flat series of prices that are whole numbers or halves
C16_FlatSlopeDyadic ==
    (bars >= 10 /\ qin.price % 50 = 0) => qout.slope = 0

----------------------------------------------------------------------------
(* StrategyConfig.Validate.  The float64 fields of a configuration are
   extended numbers (finite, +Inf, -Inf, NaN), the int fields integers. *)

\* == on float64: false when either side is NaN
XEq(a, b) == a.k # "nan" /\ b.k # "nan" /\ a = b

NoError == "nil"

\* Validate(): the first error met, or nil
Validate(c) ==
    IF XEq(c.RSIOverbought, c.RSIOversold)
    THEN "RSIOverbought and RSIOversold cannot be equal"
    ELSE IF c.HMAPeriod <= 0 THEN "HMAPeriod must be positive"
    ELSE IF c.ATSEMAperiod <= 0 THEN "ATSEMAperiod must be positive"
    ELSE IF XLeq(c.MaxRiskPerTrade, XInt(0)) \/ XLt(XFin(1, 2), c.MaxRiskPerTrade)
    THEN "MaxRiskPerTrade must be >0 and <=0.5"
    ELSE IF XLeq(c.StopLossPct, XInt(0)) \/ XLt(XFin(1, 5), c.StopLossPct)
    THEN "StopLossPct must be >0 and <=0.2"
    ELSE IF XLt(c.TakeProfitPct, XInt(0)) \/ XLt(XInt(5), c.TakeProfitPct)
    THEN "TakeProfitPct out of realistic range"
    ELSE IF XLt(c.TrailingPct, XInt(0)) \/ XLt(XInt(1), c.TrailingPct)
    THEN "TrailingPct must be between 0 and 1"
    ELSE IF c.QuantityPrecision < 0 THEN "QuantityPrecision cannot be negative"
    ELSE IF XLt(c.MinQty, XInt(0)) THEN "MinQty cannot be negative"
    ELSE IF XLeq(c.StepSize, XInt(0)) THEN "StepSize must be positive"
    ELSE IF XEq(c.MFIOverbought, c.MFIOversold)
    THEN "MFIOverbought and MFIOversold cannot be equal"
    ELSE NoError

\* the configurations tried: every field takes values inside, on the edge of
\* and outside its range
CfgSpace ==
    [RSIOverbought : {XInt(70)}, RSIOversold : {XInt(30), XInt(70)},
     MFIOverbought : {XInt(80)}, MFIOversold : {XInt(20), XInt(80)},
     HMAPeriod : {0, 9}, ATSEMAperiod : {-1, 5},
     MaxRiskPerTrade : {XInt(0), XFin(1, 100), XFin(1, 2), XFin(51, 100), XNaN},
     StopLossPct : {XInt(0), XFin(3, 200), XFin(1, 5), XFin(21, 100), XNaN},
     TakeProfitPct : {XFin(-1, 100), XInt(0), XInt(5), XPInf, XNaN},
     TrailingPct : {XNInf, XInt(0), XInt(1), XFin(101, 100), XNaN},
     QuantityPrecision : {-1, 0}, MinQty : {XFin(-1, 1000), XInt(0)},
     StepSize : {XInt(0), XFin(1, 10000)}]

CfgInit ==
    /\ qin \in CfgSpace
    /\ qout = "none"
    /\ StrategyIdle

ValidateCall ==
    /\ qout = "none"
    /\ qout' = Validate(qin)
    /\ UNCHANGED <<qin, exec, Cfg, prices, bars, fsm, rp, mu, thr>>

CfgNext == ValidateCall

SpecCfg == CfgInit /\ [][CfgNext]_vars

\* x is outside (lo, hi]; x is outside [lo, hi]
OutsideOpenClosed(x, lo, hi) == ~(XLt(lo, x) /\ XLeq(x, hi))

OutsideClosed(x, lo, hi) == ~(XLeq(lo, x) /\ XLeq(x, hi))

\* one of the faults the validation is said to reject
Faulty(c) ==
    \/ XEq(c.RSIOverbought, c.RSIOversold)
    \/ XEq(c.MFIOverbought, c.MFIOversold)
    \/ c.HMAPeriod <= 0
    \/ c.ATSEMAperiod <= 0
    \/ OutsideOpenClosed(c.MaxRiskPerTrade, XInt(0), XFin(1, 2))
    \/ OutsideOpenClosed(c.StopLossPct, XInt(0), XFin(1, 5))
    \/ OutsideClosed(c.TakeProfitPct, XInt(0), XInt(5))
    \/ OutsideClosed(c.TrailingPct, XInt(0), XInt(1))
    \/ c.QuantityPrecision < 0
    \/ XLt(c.MinQty, XInt(0))
    \/ XLeq(c.StepSize, XInt(0))

\* no float64 field of c is NaN
AllNumbers(c) ==
    \A f \in {"MaxRiskPerTrade", "StopLossPct", "TakeProfitPct", "TrailingPct"} :
        c[f].k # "nan"

(* C17: Validate returns an error whenever the overbought and oversold
   thresholds of RSI or of MFI are equal, a period is <= 0, MaxRiskPerTrade
   is outside (0, 0.5], StopLossPct outside (0, 0.2], TakeProfitPct outside
   [0, 5], TrailingPct outside [0, 1], QuantityPrecision < 0, MinQty < 0 or
   StepSize <= 0; and it returns nil when none of them holds. *)
C17_Validate ==
    qout # "none" => ((qout # NoError) <=> Faulty(qin))

\* the same for configurations without a NaN
C17_ValidateNumbers ==
    (qout # "none" /\ AllNumbers(qin)) => ((qout # NoError) <=> Faulty(qin))

----------------------------------------------------------------------------
(* The constructors.  A result is [created, err]: whether a strategy object
   is returned, and the error (NoError for nil). *)

Created == [created |-> TRUE, err |-> NoError]

Failed(err) == [created |-> FALSE, err |-> err]

NotCalled == [created |-> FALSE, err |-> "none"]

\* NewBaseStrategy(symbol, cfg, exec, suiteFactory, log); suiteErr: the
\* caller's factory returns an error
NewBaseStrategy(c, suiteErr) ==
    IF Validate(c) # NoError THEN Failed(Validate(c))
    ELSE IF suiteErr THEN Failed("suite")
    ELSE Created

\* NewBreakoutMomentum, NewHybridTrendMeanReversion and the other
\* single-symbol constructors: the error of NewBaseStrategy is returned
NewSingleStrategy(c, suiteErr) ==
    IF NewBaseStrategy(c, suiteErr).err # NoError
    THEN Failed(NewBaseStrategy(c, suiteErr).err)
    ELSE Created

\* NewRiskParityRotation(symbols, cfg, exec, topK, intervalBars, log):
\* the result; suiteErr: goti.NewIndicatorSuiteWithConfig returns an error
NewRotation(symbols, c, topK, suiteErr) ==
    IF ~ValidTopK(symbols, topK) THEN Failed("invalid topK")
    ELSE IF Len(symbols) > 0 /\ suiteErr THEN Failed("suite")
    ELSE Created

\* the configuration of the repository's tests
GoodCfg ==
    [RSIOverbought |-> XInt(70), RSIOversold |-> XInt(30),
     MFIOverbought |-> XInt(80), MFIOversold |-> XInt(20),
     HMAPeriod |-> 9, ATSEMAperiod |-> 5,
     MaxRiskPerTrade |-> XFin(1, 100), StopLossPct |-> XFin(3, 200),
     TakeProfitPct |-> XInt(0), TrailingPct |-> XInt(0),
     QuantityPrecision |-> 2, MinQty |-> XFin(1, 1000), StepSize |-> XFin(1, 10000)]

\* GoodCfg and configurations with one fault each
NewConfigs ==
    {GoodCfg,
     [GoodCfg EXCEPT !.RSIOversold = XInt(70)],
     [GoodCfg EXCEPT !.MFIOversold = XInt(80)],
     [GoodCfg EXCEPT !.HMAPeriod = 0],
     [GoodCfg EXCEPT !.ATSEMAperiod = 0],
     [GoodCfg EXCEPT !.MaxRiskPerTrade = XFin(51, 100)],
     [GoodCfg EXCEPT !.StopLossPct = XInt(0)],
     [GoodCfg EXCEPT !.TakeProfitPct = XInt(6)],
     [GoodCfg EXCEPT !.TrailingPct = XInt(2)],
     [GoodCfg EXCEPT !.QuantityPrecision = -1],
     [GoodCfg EXCEPT !.MinQty = XInt(-1)],
     [GoodCfg EXCEPT !.StepSize = XInt(0)]}

NewUniverses == {<< >>, <<"AAA">>, RPSymbols}

NewTopKs == -1..3

\* the indicator suite of a rotation symbol is built from goti's default
\* configuration with the thresholds 70/30/80/20: the constructor of the
\* library accepts it, as in every test of the repository
DefaultSuiteFails == FALSE

NewInit ==
    /\ qin \in [cfg : NewConfigs, symbols : NewUniverses, topK : NewTopKs,
                suiteErr : BOOLEAN]
    /\ qout = [base |-> NotCalled, single |-> NotCalled, rotation |-> NotCalled]
    /\ StrategyIdle

NewBaseCall ==
    /\ qout.base = NotCalled
    /\ qout' = [qout EXCEPT !.base = NewBaseStrategy(qin.cfg, qin.suiteErr)]
    /\ UNCHANGED <<qin, exec, Cfg, prices, bars, fsm, rp, mu, thr>>

NewSingleCall ==
    /\ qout.single = NotCalled
    /\ qout' = [qout EXCEPT !.single = NewSingleStrategy(qin.cfg, qin.suiteErr)]
    /\ UNCHANGED <<qin, exec, Cfg, prices, bars, fsm, rp, mu, thr>>

NewRotationCall ==
    /\ qout.rotation = NotCalled
    /\ qout' = [qout EXCEPT !.rotation =
                   NewRotation(qin.symbols, qin.cfg, qin.topK, DefaultSuiteFails)]
    /\ UNCHANGED <<qin, exec, Cfg, prices, bars, fsm, rp, mu, thr>>

NewNext == NewBaseCall \/ NewSingleCall \/ NewRotationCall

SpecNew == NewInit /\ [][NewNext]_vars

\* the constructor behind r refused the configuration
Refused(r) == r # NotCalled => (r.err # NoError /\ ~r.created)

(* C18: whenever the supplied StrategyConfig fails Validate(), NewBaseStrategy,
   each single-symbol strategy constructor and NewRiskParityRotation return
   a non-nil error and no strategy object. *)
C18_InvalidConfigRefused ==
    Validate(qin.cfg) # NoError =>
        (Refused(qout.base) /\ Refused(qout.single) /\ Refused(qout.rotation))

\* the same for NewBaseStrategy and the single-symbol constructors alone
C18_SingleSymbolRefused ==
    Validate(qin.cfg) # NoError => (Refused(qout.base) /\ Refused(qout.single))

\* NewRiskParityRotation never looks at the configuration
C18_RotationIgnoresConfig ==
    qout.rotation # NotCalled =>
        (qout.rotation.created <=> ValidTopK(qin.symbols, qin.topK))

(* C19: NewRiskParityRotation returns an error and no scheduler when
   topK <= 0 or topK > number of symbols, and succeeds when
   1 <= topK <= number of symbols. *)
C19_TopK ==
    qout.rotation # NotCalled =>
        IF qin.topK <= 0 \/ qin.topK > Len(qin.symbols)
        THEN qout.rotation.err # NoError /\ ~qout.rotation.created
        ELSE qout.rotation.err = NoError /\ qout.rotation.created

\* a scheduler over two symbols with topK = 2, and a refusal with topK = 0
C19_Witness ==
    /\ qout.rotation = Created
    /\ qin.topK = 2
    /\ Len(qin.symbols) = 2

C19_WitnessRefused ==
    /\ qout.rotation = Failed("invalid topK")
    /\ qin.topK = 0
    /\ Len(qin.symbols) = 2

----------------------------------------------------------------------------
(* The precision rounding of CalcQty, over the sizer runs *)

(* C20: CalcQty floors the quantity to QuantityPrecision decimal digits for
   every QuantityPrecision >= 0: a non-zero result has at most that many
   decimal digits, and with QuantityPrecision = 0 it is a whole number.
   Stated for the configurations Validate accepts (StepSize > 0,
   QuantityPrecision >= 0, MinQty >= 0). *)
C20_PrecisionFloor ==
    (QtyDone /\ QtyValidCfg /\ qout # <<0, 1>>) =>
        HasDigits(qout, qin.QuantityPrecision)

\* the same for QuantityPrecision > 0
C20_PrecisionFloorPositive ==
    (QtyDone /\ qin.QuantityPrecision > 0 /\ qout # <<0, 1>>) =>
        HasDigits(qout, qin.QuantityPrecision)

\* with QuantityPrecision = 0 the result is the step-floored quantity, untouched
C20_PrecisionZeroSkipped ==
    (QtyDone /\ qin.QuantityPrecision = 0 /\ qout # <<0, 1>>) =>
        qout = StepFloor(Rat(qin.eq * RatDiv(qin.maxRisk, qin.stopLossPct)[1],
                             qin.price * RatDiv(qin.maxRisk, qin.stopLossPct)[2]), qin)

----------------------------------------------------------------------------
(* The sizing example of risk_test.go: equity 10000, risk 1%, stop-loss 1.5%,
   price 100, two decimals, MinQty 0.001. *)

BasicCall ==
    /\ qin.eq = 10000 * QtyScale
    /\ qin.maxRisk = <<1, 100>>
    /\ qin.stopLossPct = <<3, 200>>
    /\ qin.price = 100
    /\ qin.QuantityPrecision = 2
    /\ qin.MinQty = 10
    /\ qin.StepSize \in {1, 100}

(* C21: CalcQty(10000, 0.01, 0.015, 100) with QuantityPrecision 2 and MinQty
   0.001 returns 66.66 for StepSize 0.0001 as well as for StepSize 0.01. *)
C21_BasicExample ==
    (QtyDone /\ BasicCall) => qout = <<6666 * 100, 1>>

C21_Witness == QtyDone /\ BasicCall /\ qin.StepSize = 1

C21_WitnessCoarseStep == QtyDone /\ BasicCall /\ qin.StepSize = 100

----------------------------------------------------------------------------
(* BaseStrategy.sanitizeVolatility on its own: the raw estimate and the price
   are float64 arguments (the callers pass an indicator value and the bar's
   close or the executor's average price), the price buffer is a field. *)

SanRaws ==
    {XNaN, XPInf, XNInf, XInt(0), XInt(-1), XFin(1, 20000), XFin(1, 10000),
     XInt(1), XInt(10), XInt(11), XInt(1000)}

SanPrices ==
    {XNaN, XPInf, XInt(-100), XInt(0), XFin(1, 2000), XInt(10), XInt(100)}

SanBuffers == {<< >>, <<100, 100, 100>>, <<100, 101, 100>>, <<100, 200, 100>>}

SanNotCalled == [k |-> "none", n |-> 0, d |-> 1]

SanInit ==
    /\ qin \in [raw : SanRaws, price : SanPrices]
    /\ prices \in SanBuffers
    /\ qout = SanNotCalled
    /\ exec = << >>
    /\ Cfg = << >>
    /\ bars = 0
    /\ fsm = << >>
    /\ RotationIdle

SanCall ==
    /\ qout = SanNotCalled
    /\ qout' = sanitizeVolatility(prices, qin.raw, qin.price)
    /\ UNCHANGED <<qin, exec, Cfg, prices, bars, fsm, rp, mu, thr>>

SanNext == SanCall

SpecSan == SanInit /\ [][SanNext]_vars

SanDone == qout # SanNotCalled

\* 0.0001, the floor of the fallback
SanEpsilon == XFin(1, 10000)

\* 10% of the price argument
TenPercent(price) == XMul(price, XFin(1, 10))

\* 0 < raw <= 0.1 * price
Plausible(raw, price) == XLt(XInt(0), raw) /\ XLeq(raw, TenPercent(price))

(* C22: for every raw value (NaN, +Inf, -Inf, zero, negative or positive) and
   every price, sanitizeVolatility returns a finite value that is at least
   0.0001, and it returns raw unchanged when 0 < raw <= 0.1 * price. *)
C22_Sanitized ==
    SanDone =>
        /\ qout.k = "fin"
        /\ XLeq(SanEpsilon, qout)
        /\ (Plausible(qin.raw, qin.price) => qout = qin.raw)

\* what holds for a finite price: the result is finite and positive; a finite
\* plausible raw value is returned as it is, whatever its size; every other
\* raw value is replaced by a fallback of at least 0.0001
C22_FinitePrice ==
    (SanDone /\ qin.price.k = "fin") =>
        /\ qout.k = "fin"
        /\ XLt(XInt(0), qout)
        /\ (Plausible(qin.raw, qin.price) => qout = qin.raw)
        /\ (qout # qin.raw => XLeq(SanEpsilon, qout))

\* a plausible raw value below 0.0001 is returned as it is
C22_SmallRawKept ==
    (SanDone /\ qin.raw = XFin(1, 20000) /\ qin.price = XInt(100)) =>
        qout = XFin(1, 20000)

\* with a NaN price and a flat or empty buffer the fallback itself is NaN
C22_NaNPrice ==
    (SanDone /\ qin.price = XNaN /\ qin.raw = XNaN
        /\ Volatility(prices) = <<0, 1>>) => qout = XNaN

(* C23: an implausibly large volatility estimate is never propagated: for
   price > 0 the value sanitizeVolatility(raw, price) returns is never
   greater than 10% of price, whatever raw is and whatever the price buffer
   contains. *)
C23_NeverAboveTenPercent ==
    (SanDone /\ XLt(XInt(0), qin.price)) => ~XLt(TenPercent(qin.price), qout)

\* what holds: a result above 10% of the price is never the raw argument, it
\* is the buffer's Volatility() or the floor 0.0001
C23_OnlyFallbackAbove ==
    (SanDone /\ XLt(XInt(0), qin.price) /\ XLt(TenPercent(qin.price), qout)) =>
        /\ ~Plausible(qin.raw, qin.price)
        /\ qout \in {XRat(Volatility(prices)), SanEpsilon}

\* with an empty or flat buffer and a price of at least 0.001 the claim holds
C23_FlatBuffer ==
    (SanDone /\ XLeq(XFin(1, 1000), qin.price)
        /\ Volatility(prices) = <<0, 1>>) =>
        ~XLt(TenPercent(qin.price), qout)

----------------------------------------------------------------------------
(* BreakoutMomentum.manageTakeProfit on its own: positions are built by
   Submit calls on a fresh executor, then manageTakeProfit runs with a price
   and the suite's last ATSO value (or none). *)

TPMaxCalls == 3

TPConfigs == {TestCfg(<<0, 1>>, <<2, 1>>), TestCfg(<<0, 1>>, <<1, 2>>)}

TPBuffers == {Flat, Rising}

TPEntryPrice == Flat[1]

TPEntryQty == 10 * QtyScale

TPPrices == {90, 96, 101, 103, 104, 105}

TPAtsos == {<<"none">>, <<"val", XInt(2)>>, <<"val", XInt(-2)>>, <<"val", XNaN>>}

TPInit ==
    /\ exec = NewExecutor(StartEquity, {TestSymbol})
    /\ Cfg \in TPConfigs
    /\ prices \in TPBuffers
    /\ qin = [op |-> "none", price |-> 0, atso |-> <<"none">>,
              before |-> NewExecutor(StartEquity, {TestSymbol})]
    /\ qout = << >>
    /\ bars = 0
    /\ fsm = << >>
    /\ RotationIdle

\* Exec.Submit of an entry or exit order
TPSubmit(side) ==
    /\ bars < TPMaxCalls
    /\ exec' = Submit(StartHandler(exec),
                      Order(TestSymbol, side, TPEntryQty, TPEntryPrice, "order"))
    /\ qin' = [op |-> "submit", price |-> TPEntryPrice, atso |-> <<"none">>,
               before |-> exec]
    /\ bars' = bars + 1
    /\ UNCHANGED <<qout, Cfg, prices, fsm, rp, mu, thr>>

\* bm.manageTakeProfit(currentPrice)
TPCall(currentPrice, atso) ==
    /\ bars < TPMaxCalls
    /\ exec' = manageTakeProfit(StartHandler(exec), prices, Cfg, TestSymbol,
                                [IndQuiet EXCEPT !.atso = atso], currentPrice)
    /\ qin' = [op |-> "tp", price |-> currentPrice, atso |-> atso, before |-> exec]
    /\ bars' = bars + 1
    /\ UNCHANGED <<qout, Cfg, prices, fsm, rp, mu, thr>>

TPNext ==
    \/ \E side \in {Buy, Sell} : TPSubmit(side)
    \/ \E p \in TPPrices, a \in TPAtsos : TPCall(p, a)

SpecTP == TPInit /\ [][TPNext]_vars

\* the last call was manageTakeProfit and the suite had an ATSO value
TPDone == qin.op = "tp" /\ qin.atso[1] = "val"

\* the position manageTakeProfit found
TPQty == qin.before.positions[TestSymbol]

\* manageTakeProfit submitted the one order that flattens the position
TPClosed ==
    exec.calls = <<Order(TestSymbol, CloseSide(TPQty), Abs(TPQty), qin.price,
                         "breakout_mom_tp")>>

\* the position was opened from flat by the last accepted order
TPOpenedFromFlat ==
    LET os == qin.before.orders
    IN  Len(os) >= 1 /\ SignedSum(os, Len(os) - 1) = 0

\* the target is reached for a position of qty with average price avg:
\* currentPrice >= avg + vol * TakeProfitPct (long), <= avg - vol * TakeProfitPct (short)
TPReached(qty, avg) ==
    LET vol  == sanitizeVolatility(prices, XAbs(qin.atso[2]), avg)
        move == XMul(vol, XRat(Cfg.TakeProfitPct))
    IN  IF qty > 0
        THEN XLeq(XAdd(avg, move), XInt(qin.price))
        ELSE XLeq(XInt(qin.price), XSub(avg, move))

(* C24: manageTakeProfit is a no-op when the position is flat; it closes a
   long position only when currentPrice >= avgPrice + vol * TakeProfitPct and
   a short position only when currentPrice <= avgPrice - vol * TakeProfitPct,
   vol being the sanitized volatility, and it does close in exactly those
   cases.  avgPrice is the average entry price: the price of the order that
   opened the position from flat. *)
C24_TakeProfit ==
    TPDone =>
        /\ (~TPClosed => exec = StartHandler(qin.before))
        /\ (TPQty = 0 => ~TPClosed)
        /\ (TPQty # 0 /\ TPOpenedFromFlat) =>
               (TPClosed <=> TPReached(TPQty, XInt(TPEntryPrice)))

\* what holds: the same with the average price the executor stores
C24_StoredAverage ==
    TPDone =>
        /\ (~TPClosed => exec = StartHandler(qin.before))
        /\ (TPQty = 0 => ~TPClosed)
        /\ (TPQty # 0) =>
               (TPClosed <=> TPReached(TPQty, qin.before.avgPrice[TestSymbol]))

\* what holds: the claim for a long position opened by the first order
C24_FirstLong ==
    (TPDone /\ TPQty > 0 /\ Len(qin.before.orders) = 1) =>
        (TPClosed <=> TPReached(TPQty, XInt(TPEntryPrice)))

\* a long position opened by the first order was closed at its target
C24_FirstLongClosed ==
    (TPDone /\ TPQty > 0 /\ Len(qin.before.orders) = 1 /\ qin.price = 104
        /\ qin.atso = <<"val", XInt(2)>> /\ Cfg.TakeProfitPct = <<2, 1>>) => TPClosed

\* a short position is never closed by the take profit
C24_ShortNeverCloses == (TPDone /\ TPQty < 0) => ~TPClosed

\* without an ATSO value manageTakeProfit does nothing
C24_NoEstimate ==
    (qin.op = "tp" /\ qin.atso[1] = "none") => exec = StartHandler(qin.before)

----------------------------------------------------------------------------
(* The ramp scenarios of the BreakoutMomentum tests: a fresh strategy (empty
   price buffer, flat, equity 10000) is fed 15 closes 101..115 and then
   either one higher close or 15 falling closes 114..100.  The indicator
   suite is the real goti suite in those tests; what it answers is an input
   here, limited to answers that do not contradict the series: Add accepts
   the bar, and the three oscillators do not all report a crossover against
   the direction of the bar.  On the first two falling bars the price
   buffer's own fallback still signals long; whether the suite reported its
   three bearish crossovers on the first falling bar already is recorded in
   qin.early. *)

ScenMaxBars == 30

\* for i := 1; i <= 15; i++ { price := float64(100 + i) ... }
RampLen == 15

RampBase == 100

UpCloses == {116, 117, 118, 120}

ScenConfigs == {TestCfg(<<1, 50>>, <<0, 1>>), TestCfg(<<0, 1>>, <<0, 1>>)}

RisingAnswers == {IndQuiet, IndBullish, IndMixed}

FallingAnswers == {IndQuiet, IndBearish, IndMixed}

ScenInit ==
    /\ exec = NewExecutor(StartEquity, {TestSymbol})
    /\ Cfg \in ScenConfigs
    /\ prices = << >>
    /\ bars = 0
    /\ qin = [script |-> "ramp", close |-> 0, ind |-> IndQuiet, early |-> FALSE]
    /\ qout = << >>
    /\ fsm = << >>
    /\ RotationIdle

\* HMA, VWAO and ATSO all report a bearish crossover
IndShort(ind) == ind.hBear = "yes" /\ ind.vBear = "yes" /\ ind.atBear

\* the suite signals short on the first falling bar
EarlyCrossover(script, ind) == script = "down" /\ bars = RampLen /\ IndShort(ind)

\* bm.ProcessBar(close + 0.5, close - 0.5, close, volume)
ScenBar(script, close, ind) ==
    /\ bars < ScenMaxBars
    /\ LET r == BMProcessBar([es |-> exec, buf |-> prices], Cfg, TestSymbol, close, ind)
       IN  /\ exec' = r.es
           /\ prices' = r.buf
    /\ bars' = bars + 1
    /\ qin' = [script |-> script, close |-> close, ind |-> ind,
               early |-> qin.early \/ EarlyCrossover(script, ind)]
    /\ UNCHANGED <<qout, Cfg, fsm, rp, mu, thr>>

\* the rising closes 101..115
RampBar ==
    /\ bars < RampLen
    /\ \E ind \in RisingAnswers : ScenBar("ramp", RampBase + bars + 1, ind)

\* one more bar above the ramp
UpBar ==
    /\ bars = RampLen
    /\ \E close \in UpCloses, ind \in RisingAnswers : ScenBar("up", close, ind)

\* the falling closes 114, 113, ...
DownBar ==
    /\ bars >= RampLen
    /\ qin.script \in {"ramp", "down"}
    /\ \E ind \in FallingAnswers :
          ScenBar("down", RampBase + RampLen - (bars + 1 - RampLen), ind)

ScenNext == RampBar \/ UpBar \/ DownBar

SpecScen == ScenInit /\ [][ScenNext]_vars

\* the entry of the ramp: the first accepted order
RampEntry == exec.orders[1]

\* 115 * 1.02 <= close
AtTrailingLevel(close) ==
    XLeq(XMul(XInt(RampBase + RampLen), OnePlus(Cfg.TrailingPct)), XInt(close))

(* C25: with TrailingPct = 0.02 and a flat start, the 15 rising closes
   101..115 submit no order on bars 1-14 and exactly one BUY at 115 on bar
   15; a following bar with close >= 115 * 1.02 submits exactly one SELL for
   the full held quantity at that close, and nothing else. *)
C25_RampThenTrailingStop ==
    Cfg.TrailingPct = <<1, 50>> =>
        /\ bars < RampLen => (exec.calls = << >> /\ exec.orders = << >>)
        /\ bars = RampLen =>
              /\ Len(exec.calls) = 1
              /\ exec.orders = exec.calls
              /\ exec.calls[1].Side = Buy
              /\ exec.calls[1].Price = RampBase + RampLen
              /\ exec.calls[1].Qty > 0
              /\ exec.positions[TestSymbol] = exec.calls[1].Qty
        /\ (bars = RampLen + 1 /\ qin.script = "up" /\ AtTrailingLevel(qin.close)) =>
              /\ Len(exec.calls) = 1
              /\ exec.orders = <<RampEntry>> \o exec.calls
              /\ exec.calls[1].Side = Sell
              /\ exec.calls[1].Qty = RampEntry.Qty
              /\ exec.calls[1].Price = qin.close
              /\ AtTrailingLevel(exec.calls[1].Price)
              /\ exec.positions[TestSymbol] = 0

\* the trailing stop closed the ramp's long at 118
C25_Witness ==
    /\ Cfg.TrailingPct = <<1, 50>>
    /\ bars = RampLen + 1
    /\ qin.script = "up"
    /\ qin.close = 118
    /\ Len(exec.orders) = 2
    /\ exec.calls[1].Comment = "trailing_stop"

\* below the level the long stays open
C25_BelowLevelHeld ==
    (Cfg.TrailingPct = <<1, 50>> /\ qin.script = "up" /\ ~AtTrailingLevel(qin.close)) =>
        (exec.calls = << >> /\ exec.positions[TestSymbol] = RampEntry.Qty)

(* C26: with trailing stop and take profit disabled, a long entry followed
   by 15 strictly falling closes gives exactly three orders in total: the BUY
   entry, then in one bar a SELL closing the long with the BUY's quantity
   followed by a SELL short entry with positive quantity; no further order
   follows while the fall continues.  The indicator suite is taken not to
   report all three bearish crossovers on the first falling bar already. *)
C26_Flip ==
    (Cfg.TrailingPct = <<0, 1>> /\ Cfg.TakeProfitPct = <<0, 1>> /\ qin.script = "down"
        /\ ~qin.early) =>
        /\ RampEntry.Side = Buy
        /\ Len(exec.orders) \in {1, 3}
        /\ exec.calls # << >> =>
              /\ Len(exec.calls) = 2
              /\ exec.orders = <<RampEntry>> \o exec.calls
              /\ exec.calls[1].Side = Sell
              /\ exec.calls[1].Qty = RampEntry.Qty
              /\ exec.calls[1].Price = qin.close
              /\ exec.calls[2].Side = Sell
              /\ exec.calls[2].Qty > 0
              /\ exec.calls[2].Price = qin.close
        /\ Len(exec.orders) = 3 => exec.positions[TestSymbol] = 0 - exec.orders[3].Qty
        /\ bars >= RampLen + 15 => Len(exec.orders) = 3

\* the fall is over: three orders, the last bar submitted none
C26_Witness ==
    /\ Cfg.TrailingPct = <<0, 1>>
    /\ ~qin.early
    /\ qin.script = "down"
    /\ bars = RampLen + 15
    /\ Len(exec.orders) = 3
    /\ exec.calls = << >>

\* the flip happens on the price fallback alone, on the fifth falling bar
C26_WitnessFallback ==
    /\ Cfg.TrailingPct = <<0, 1>>
    /\ qin.script = "down"
    /\ bars = RampLen + 5
    /\ ~qin.early
    /\ Len(exec.calls) = 2

\* the flip follows the suite's crossovers, on the second falling bar
C26_WitnessCrossover ==
    /\ Cfg.TrailingPct = <<0, 1>>
    /\ qin.script = "down"
    /\ bars = RampLen + 2
    /\ ~qin.early
    /\ qin.ind = IndBearish
    /\ Len(exec.calls) = 2

\* when the suite's crossovers come on the first falling bar, the strategy
\* goes short on that bar and back to long on the next, where the buffer's
\* fallback still signals long: five orders after two falling bars
C26_EarlyCrossoverFlipsBack ==
    (qin.script = "down" /\ bars = RampLen + 2 /\ qin.early) =>
        (Len(exec.orders) = 5 /\ exec.positions[TestSymbol] > 0)

----------------------------------------------------------------------------
(* Progress of concurrent ProcessBar calls.  The scheduler runs every thread
   that can take a step (weak fairness of the steps between Lock and Unlock:
   the code there has no blocking call but Executor.Submit, which returns),
   and sync.RWMutex.Lock() hands the mutex to a waiting caller once it is
   free often enough (strong fairness of the Lock step: the mutex's
   starvation mode). *)

\* the ProcessBar calls made by the threads together in the progress check
LiveMaxCalls == 3

\* a thread calls ProcessBar(symbol, high, low, close, volume)
LiveCall(t, c) ==
    /\ thr[t].pc = "idle"
    /\ bars < LiveMaxCalls
    /\ thr' = [thr EXCEPT ![t] = [IdleThread EXCEPT !.pc = "lock", !.sym = c[1],
                                                    !.bar = c[2][1], !.ind = c[2][2]]]
    /\ bars' = bars + 1
    /\ UNCHANGED <<qin, qout, exec, Cfg, prices, fsm, rp, mu>>

\* the steps of thread t between Lock and Unlock
ConcInsideStep(t) ==
    \/ ConcLookup(t)
    \/ ConcAdd(t)
    \/ ConcUpdate(t)
    \/ ConcRank(t)
    \/ ConcClose(t)
    \/ ConcOpen(t)
    \/ ConcReset(t)
    \/ ConcUnlock(t)

ConcFairness ==
    \A t \in Threads : WF_vars(ConcInsideStep(t)) /\ SF_vars(ConcLock(t))

LiveNext ==
    \E t \in Threads :
        \/ \E c \in ConcCalls : LiveCall(t, c)
        \/ ConcLock(t)
        \/ ConcLookup(t)
        \/ ConcAdd(t)
        \/ ConcUpdate(t)
        \/ ConcRank(t)
        \/ ConcClose(t)
        \/ ConcOpen(t)
        \/ ConcReset(t)
        \/ ConcUnlock(t)

SpecConcFair == ConcInit /\ [][LiveNext]_vars /\ ConcFairness

\* thread t is in a ProcessBar call
InCall(t) == thr[t].pc # "idle"

\* the mutex is free, or held by a thread that is between Lock and Unlock
HolderInside == mu = 0 \/ (mu \in Threads /\ thr[mu].pc \in InsidePcs)

\* a thread that returns from ProcessBar after Lock has released the mutex
ReturnsUnlocked ==
    \A t \in Threads :
        (thr[t].pc \in InsidePcs /\ thr'[t].pc = "idle") => (mu = t /\ mu' = 0)

(* C27: every ProcessBar call releases the scheduler lock on each of its
   exit paths (unknown symbol, indicator-update error, normal bar, bar that
   rebalances); with an Executor that returns and fair scheduling every
   concurrent ProcessBar call eventually returns, and no state is reachable
   in which the lock is held by a thread that is not going to release it. *)
C27_EveryCallReturns ==
    /\ [][ReturnsUnlocked]_vars
    /\ []HolderInside
    /\ \A t \in Threads : InCall(t) ~> ~InCall(t)

\* one thread waits for the lock while the other is in a rebalance
C27_Witness ==
    \E t, u \in Threads : thr[t].pc = "lock" /\ thr[u].pc = "close" /\ mu = u

\* the exit paths: a call has returned on the unknown-symbol path while the
\* other thread waits; likewise on the indicator-error path
C27_WitnessUnknownSymbol ==
    \E t, u \in Threads :
        /\ thr[t].pc = "lookup" /\ thr[t].sym = UnknownSymbol /\ thr[u].pc = "lock"

C27_WitnessAddError ==
    \E t, u \in Threads :
        /\ thr[t].pc = "add" /\ thr[t].ind.addErr /\ thr[u].pc = "lock"

----------------------------------------------------------------------------
(* BaseStrategy.submitOrder with the result of Executor.Submit and the
   order-submitted counter.  The executor is a PaperExecutor, a MockExecutor
   or another implementation of the Executor interface ("remote") that may
   refuse an order with an error.  qin holds the call (executor kind, caller,
   order, tag, fault, executor state and counter values before it), qout
   what submitOrder returned, the counter values (metrics.OrdersSubmitted by
   label) and the record logged. *)

SubMaxCalls == 2

SubImpls == {"paper", "mock", "remote"}

SubTags == {"breakout_mom_long", "breakout_mom_short", "breakout_mom_close_long",
            "trailing_stop"}

\* the label under which PaperExecutor.Submit counts its own executions
PaperTag == "paper"

SubQtys == {0, 10 * QtyScale, 200 * QtyScale}

SubPrice == Flat[1]

NoCounts == [t \in SubTags \cup {PaperTag} |-> 0]

\* Counter.Inc() on the counter of label tag
Inc(counts, tag) == [counts EXCEPT ![tag] = @ + 1]

\* Exec.Submit(o): the executor state after the call and the error returned.
\* fault: the log write of a PaperExecutor's rejection fails, or the remote
\* executor refuses the order
ExecutorSubmit(impl, es, o, fault) ==
    IF impl = "remote"
    THEN IF fault THEN [es |-> [es EXCEPT !.calls = Append(@, o)], err |-> "error"]
         ELSE [es |-> Submit(es, o), err |-> "nil"]
    ELSE [es |-> Submit(es, o), err |-> SubmitResult(impl, es, o, ~fault)]

\* the counter after Exec.Submit(o): a PaperExecutor counts an executed order
ExecutorCounts(impl, es, o, counts) ==
    IF impl = "paper" /\ o.Qty # 0 /\ ~Rejected(es, o) THEN Inc(counts, PaperTag)
    ELSE counts

\* a faulty variant of submitOrderCounted: a failed Submit is tried again
submitOrderRetried(impl, es, counts, o, ctx, fault) ==
    LET r1 == ExecutorSubmit(impl, es, o, fault)
        r  == IF r1.err = "nil" THEN r1 ELSE ExecutorSubmit(impl, r1.es, o, fault)
        c  == ExecutorCounts(impl, es, o, counts)
    IN  IF r.err # "nil"
        THEN [es |-> r.es, ret |-> r.err, counts |-> c, log |-> "order_submit_failed"]
        ELSE [es |-> r.es, ret |-> "nil", counts |-> Inc(c, ctx), log |-> "order_submitted"]

\* submitOrder(o, ctx): executor state, returned error, counters, log record
submitOrderCounted(impl, es, counts, o, ctx, fault) ==
    LET r == ExecutorSubmit(impl, es, o, fault)
        c == ExecutorCounts(impl, es, o, counts)
    IN  IF r.err # "nil"
        THEN [es |-> r.es, ret |-> r.err, counts |-> c, log |-> "order_submit_failed"]
        ELSE [es |-> r.es, ret |-> "nil", counts |-> Inc(c, ctx), log |-> "order_submitted"]

\* a fault can only show where the executor has something to fail at
FaultPossible(impl, es, o, fault) ==
    fault => (impl = "remote" \/ (impl = "paper" /\ Rejected(es, o)))

SubInit ==
    /\ exec = NewExecutor(StartEquity, {TestSymbol})
    /\ Cfg = TestCfg(<<0, 1>>, <<0, 1>>)
    /\ prices = << >>
    /\ \E impl \in SubImpls :
          qin = [impl |-> impl, op |-> "none", called |-> FALSE,
                 o |-> Order(TestSymbol, Buy, 0, 0, ""), ctx |-> "trailing_stop",
                 fault |-> FALSE, before |-> exec, counts |-> NoCounts]
    /\ qout = [ret |-> "none", counts |-> NoCounts, log |-> "none"]
    /\ bars = 0
    /\ fsm = << >>
    /\ RotationIdle

\* the state after a caller has passed o to submitOrder and dropped the result
SubSubmitted(op, o, ctx, fault) ==
    LET r == submitOrderCounted(qin.impl, StartHandler(exec), qout.counts, o, ctx, fault) IN
    /\ FaultPossible(qin.impl, exec, o, fault)
    /\ exec' = r.es
    /\ qout' = [ret |-> r.ret, counts |-> r.counts, log |-> r.log]
    /\ qin' = [qin EXCEPT !.op = op, !.called = TRUE, !.o = o, !.ctx = ctx,
                          !.fault = fault, !.before = exec, !.counts = qout.counts]

\* the state after a caller has returned without calling submitOrder
SubSkipped(op, ctx) ==
    /\ exec' = StartHandler(exec)
    /\ qout' = [qout EXCEPT !.ret = "none", !.log = "none"]
    /\ qin' = [qin EXCEPT !.op = op, !.called = FALSE, !.ctx = ctx, !.fault = FALSE,
                          !.before = exec, !.counts = qout.counts]

\* b.submitOrder(o, ctx)
SubOrderCall ==
    /\ bars < SubMaxCalls
    /\ \E side \in {Buy, Sell}, q \in SubQtys, ctx \in SubTags, fault \in BOOLEAN :
          SubSubmitted("order", Order(TestSymbol, side, q, SubPrice, "order"), ctx, fault)
    /\ bars' = bars + 1
    /\ UNCHANGED <<Cfg, prices, fsm, rp, mu, thr>>

\* b.closePosition(price, ctx)
SubCloseCall ==
    /\ bars < SubMaxCalls
    /\ \E ctx \in {"breakout_mom_close_long", "trailing_stop"}, fault \in BOOLEAN :
          LET qty == exec.positions[TestSymbol] IN
          IF qty = 0 THEN ~fault /\ SubSkipped("close", ctx)
          ELSE SubSubmitted("close",
                            Order(TestSymbol, CloseSide(qty), Abs(qty), SubPrice, ctx),
                            ctx, fault)
    /\ bars' = bars + 1
    /\ UNCHANGED <<Cfg, prices, fsm, rp, mu, thr>>

\* bm.openLong(price) and bm.openShort(price)
SubEntryCall ==
    /\ bars < SubMaxCalls
    /\ \E side \in {Buy, Sell}, fault \in BOOLEAN :
          LET qty == calcQty(exec, Cfg, SubPrice)
              ctx == IF side = Buy THEN "breakout_mom_long" ELSE "breakout_mom_short"
          IN  IF qty <= 0 THEN ~fault /\ SubSkipped("entry", ctx)
              ELSE SubSubmitted("entry",
                                Order(TestSymbol, side, qty, SubPrice, "entry"),
                                ctx, fault)
    /\ bars' = bars + 1
    /\ UNCHANGED <<Cfg, prices, fsm, rp, mu, thr>>

SubNext == SubOrderCall \/ SubCloseCall \/ SubEntryCall

SpecSub == SubInit /\ [][SubNext]_vars

\* the last call went through submitOrder
SubCalled == bars > 0 /\ qin.called

\* Exec.Submit returned an error in the last call
SubFailed ==
    ExecutorSubmit(qin.impl, StartHandler(qin.before), qin.o, qin.fault).err # "nil"

(* C28: submitOrder calls Executor.Submit exactly once per call and never
   retries.  When Submit fails it returns that error and does not increment
   the order-submitted counter, and the caller (closePosition, openLong,
   openShort) submits nothing more for that order; when Submit succeeds it
   increments the counter of the tag exactly once, leaves the counters of
   the other strategy tags alone, and returns nil. *)
C28_SubmitOnce ==
    SubCalled =>
        /\ exec.calls = <<qin.o>>
        /\ SubFailed =>
              /\ qout.ret = "error"
              /\ qout.counts = qin.counts
              /\ qout.log = "order_submit_failed"
        /\ ~SubFailed =>
              /\ qout.ret = "nil"
              /\ qout.counts[qin.ctx] = qin.counts[qin.ctx] + 1
              /\ \A t \in SubTags \ {qin.ctx} : qout.counts[t] = qin.counts[t]
              /\ qout.log = "order_submitted"

\* a PaperExecutor's Submit has failed (a BUY beyond the cash whose log line
\* could not be written) after an earlier order was counted
C28_Witness ==
    /\ SubCalled
    /\ SubFailed
    /\ qin.impl = "paper"
    /\ \E t \in SubTags : qout.counts[t] > 0

\* a refusing executor in a call made by closePosition and in an entry, and
\* a successful entry
C28_WitnessRemoteClose == SubCalled /\ SubFailed /\ qin.impl = "remote" /\ qin.op = "close"

C28_WitnessRemoteEntry == SubCalled /\ SubFailed /\ qin.impl = "remote" /\ qin.op = "entry"

C28_WitnessSuccess ==
    /\ SubCalled
    /\ ~SubFailed
    /\ qin.op = "entry"
    /\ qout.counts[qin.ctx] = 2

\* a caller that finds nothing to submit calls neither submitOrder nor Submit
C28_SkippedCallsNothing ==
    (bars > 0 /\ ~qin.called) => (exec.calls = NoOrders /\ qout.counts = qin.counts)

----------------------------------------------------------------------------
(* The hybrid FSM from construction: an empty price buffer, state Idle.  The
   closes follow one of three series (rising, falling or flat by one per
   accepted bar); the indicator suite's answers are inputs of every bar.
   qin holds the series and the answers of the last bar. *)

\* the bars fed to the fresh strategy: the warm-up, rejected bars, a decision
WarmMaxBars == 17

WarmBase == Flat[1]

\* the step of the series per accepted bar
WarmSlopes == {1, 0, -1}

WarmAnswers == {IndQuiet, IndAddErr, IndBullish, IndBearish}

\* NewHybridTrendMeanReversion
FreshFsm == [state |-> stateIdle, trendSide |-> NoSide, flatBarCounter |-> 0]

WarmInit ==
    /\ exec = NewExecutor(StartEquity, {TestSymbol})
    /\ Cfg \in HyConfigs
    /\ prices = << >>
    /\ bars = 0
    /\ fsm = FreshFsm
    /\ \E slope \in WarmSlopes : qin = [slope |-> slope, ind |-> IndQuiet]
    /\ qout = << >>
    /\ RotationIdle

\* the close of the next bar of the series
WarmClose == WarmBase + qin.slope * (Len(prices) + 1)

\* one ProcessBar call
WarmBar(ind) ==
    /\ bars < WarmMaxBars
    /\ LET r == HybridProcessBar([es |-> exec, buf |-> prices, state |-> fsm.state,
                                  trendSide |-> fsm.trendSide,
                                  flatBarCounter |-> fsm.flatBarCounter],
                                 Cfg, TestSymbol, WarmClose, ind)
       IN  /\ exec' = r.es
           /\ prices' = r.buf
           /\ fsm' = [state |-> r.state, trendSide |-> r.trendSide,
                      flatBarCounter |-> r.flatBarCounter]
    /\ qin' = [qin EXCEPT !.ind = ind]
    /\ bars' = bars + 1
    /\ UNCHANGED <<qout, Cfg, rp, mu, thr>>

WarmNext == \E ind \in WarmAnswers : WarmBar(ind)

SpecWarm == WarmInit /\ [][WarmNext]_vars

\* the bars the suite has accepted so far (the buffer has room for 64)
AcceptedBars == Len(prices)

(* C29: warm-up gate of the hybrid FSM.  During the first 14 accepted bars
   ProcessBar submits no order and state (Idle), trendSide and
   flatBarCounter stay as constructed, whatever the indicators answer; no
   step taken before the 15th accepted bar changes them. *)
C29_WarmUpGate ==
    /\ [](AcceptedBars < WarmUp =>
            /\ exec.calls = NoOrders
            /\ exec.orders = NoOrders
            /\ exec.positions[TestSymbol] = 0
            /\ fsm = FreshFsm)
    /\ [][(fsm' # fsm \/ exec'.orders # exec.orders) => Len(prices') >= WarmUp]_vars

\* the 14th accepted bar, with a bullish crossover reported, has been held
\* at the gate
C29_Witness ==
    /\ AcceptedBars = WarmUp - 1
    /\ qin.ind = IndBullish
    /\ fsm = FreshFsm

\* rejected bars do not count: 16 calls, fewer than 15 accepted
C29_WitnessRejectedBars == bars >= WarmUp + 1 /\ AcceptedBars < WarmUp

\* the decision of the 15th accepted bar: a trend entered with one order
C29_WitnessFifteenth ==
    /\ AcceptedBars = WarmUp
    /\ fsm.state = stateTrend
    /\ Len(exec.orders) = 1
    /\ Len(exec.calls) = 1

----------------------------------------------------------------------------
(* The Trend case of the hybrid FSM, step by step. *)

\* the bar of this step was accepted by the suite and recorded
BarAccepted == Len(prices') = Len(prices) + 1

\* the Trend case of this step finds the trend reinforced
StepReinforced == Reinforced([buf |-> prices', trendSide |-> fsm.trendSide])

\* this step is the third consecutive bar in Trend without reinforcement
ThirdFlatBar ==
    /\ fsm.state = stateTrend
    /\ BarAccepted
    /\ ~StepReinforced
    /\ fsm.flatBarCounter = flatBarThreshold - 1

\* the order that flattens the position held before this step, at its close
FlatteningOrder ==
    Order(TestSymbol, CloseSide(exec.positions[TestSymbol]),
          Abs(exec.positions[TestSymbol]), BufLast(prices'), "hybrid_trend_exit")

\* the counter and the state after a bar handled in Trend
TrendStep ==
    (fsm.state = stateTrend /\ BarAccepted) =>
        /\ fsm'.trendSide = fsm.trendSide
        /\ StepReinforced =>
              /\ fsm'.state = stateTrend
              /\ fsm'.flatBarCounter = 0
              /\ exec'.calls = NoOrders
        /\ (~StepReinforced /\ ~ThirdFlatBar) =>
              /\ fsm'.state = stateTrend
              /\ fsm'.flatBarCounter = fsm.flatBarCounter + 1
              /\ exec'.calls = NoOrders
        /\ ThirdFlatBar =>
              /\ fsm'.state = stateRevert
              /\ fsm'.flatBarCounter = 0
              /\ exec.positions[TestSymbol] # 0 => exec'.calls = <<FlatteningOrder>>
              /\ exec.positions[TestSymbol] = 0 => exec'.calls = NoOrders

(* C30: in state Trend a reinforcing bar (the buffer's trend direction
   agrees with trendSide and the absolute last price change exceeds 0.05)
   resets flatBarCounter to 0 and keeps state Trend; the FSM moves to Revert
   on exactly the third consecutive non-reinforcing bar, and on that bar the
   open trend position is closed with one flattening order, the position is
   flat afterwards, and flatBarCounter is reset to 0. *)
C30_TrendTimeout ==
    /\ [](fsm.state = stateTrend => fsm.flatBarCounter \in 0..(flatBarThreshold - 1))
    /\ [][TrendStep]_vars
    /\ [][ThirdFlatBar => exec'.positions[TestSymbol] = 0]_vars

\* the part of C30 about the counter, the state and the order submitted
C30_CounterAndOrder ==
    /\ [](fsm.state = stateTrend => fsm.flatBarCounter \in 0..(flatBarThreshold - 1))
    /\ [][TrendStep]_vars

\* the position is flat after the timeout whenever the executor took the
\* flattening order
C30_FlatIfExecuted ==
    [][(ThirdFlatBar /\ ~Rejected(exec, FlatteningOrder))
          => exec'.positions[TestSymbol] = 0]_vars

\* a short left open by the timeout: the flattening BUY was dropped
C30_ShortLeftOpen ==
    [][(ThirdFlatBar /\ exec'.positions[TestSymbol] # 0)
          => (exec.positions[TestSymbol] < 0 /\ Rejected(exec, FlatteningOrder)
              /\ exec'.positions = exec.positions)]_vars

----------------------------------------------------------------------------
(* The hybrid FSM on a short that is bought back at a loss: a flat history
   at 100, a first bar at 100, then closes of 240 and 250.  The short opened
   on the first bar can just be bought back at 250, which leaves the
   executor with next to no equity. *)

\* the bars fed to the FSM: the entry, three flat bars, the Revert bar, one more
LossMaxBars == 6

LossCloses == {240, 250}

LossAnswers == {IndQuiet, IndBullish, IndBearish}

LossBar(close, ind) ==
    /\ bars < LossMaxBars
    /\ HyStep(close, ind)

LossNext ==
    \E close \in (IF bars = 0 THEN {Flat[1]} ELSE LossCloses), ind \in LossAnswers :
        LossBar(close, ind)

SpecLoss == GapInit /\ [][LossNext]_vars

\* this step takes the FSM from Revert back to Idle
RevertToIdle == fsm.state = stateRevert /\ fsm'.state = stateIdle

\* the side opposite to the finished trend
OppositeSide(side) == IF side = Buy THEN Sell ELSE Buy

\* the entry orders openOpposite passed to Submit in the handler that has run
RevertEntries(es) ==
    {i \in 1..Len(es.calls) : es.calls[i].Comment = "HybridRevert entry"}

(* C31: every Revert->Idle transition of the hybrid FSM happens together
   with the submission of exactly one entry order whose side is opposite to
   trendSide; the FSM never returns from Revert to Idle without it. *)
C31_ContrarianEntry ==
    [][RevertToIdle =>
          /\ Cardinality(RevertEntries(exec')) = 1
          /\ \A i \in RevertEntries(exec') :
                /\ exec'.calls[i].Side = OppositeSide(fsm.trendSide)
                /\ exec'.calls[i].Qty > 0
      ]_vars

\* the transition comes with that one order whenever openOpposite sizes a
\* positive quantity, and with no order otherwise
C31_EntryWhenSized ==
    [][RevertToIdle =>
          LET qty == calcQty(exec, Cfg, BufLast(prices')) IN
          /\ qty > 0 =>
                /\ Cardinality(RevertEntries(exec')) = 1
                /\ \A i \in RevertEntries(exec') :
                      /\ exec'.calls[i].Side = OppositeSide(fsm.trendSide)
                      /\ exec'.calls[i].Qty = qty
          /\ qty <= 0 => exec'.calls = NoOrders
      ]_vars

\* back in Idle after a Revert that submitted nothing, the position still zero
C31_IdleWithoutEntry ==
    [][(RevertToIdle /\ exec'.calls = NoOrders)
          => (calcQty(exec, Cfg, BufLast(prices')) = 0 /\ exec'.positions = exec.positions)]_vars

----------------------------------------------------------------------------
(* The position the hybrid FSM holds while in Trend. *)

\* the position of the strategy's symbol is on the side of the trend
PositionOnSide(es, side) ==
    \/ side = Buy /\ es.positions[TestSymbol] > 0
    \/ side = Sell /\ es.positions[TestSymbol] < 0

(* C32: whenever the hybrid FSM is in state Trend at the end of ProcessBar,
   the executor holds a non-zero position whose sign matches trendSide (long
   for BUY, short for SELL). *)
C32_TrendHoldsPosition ==
    fsm.state = stateTrend => PositionOnSide(exec, fsm.trendSide)

\* it holds for a trend entered from a flat position
C32_FromFlat ==
    [][(fsm.state = stateIdle /\ fsm'.state = stateTrend /\ exec.positions[TestSymbol] = 0)
          => PositionOnSide(exec', fsm'.trendSide)]_vars

\* every Idle->Trend step submits one entry order on the side of the trend,
\* which the executor executes
C32_EntrySubmitted ==
    [][(fsm.state = stateIdle /\ fsm'.state = stateTrend)
          => /\ Len(exec'.calls) = 1
             /\ exec'.calls[1].Side = fsm'.trendSide
             /\ exec'.calls[1].Qty > 0
             /\ exec'.positions[TestSymbol] =
                   exec.positions[TestSymbol]
                     + (IF fsm'.trendSide = Buy THEN 1 ELSE -1) * exec'.calls[1].Qty
      ]_vars

\* a trend entered against the contrarian position left by the last Revert
C32_AgainstContrarian ==
    [][(fsm.state = stateIdle /\ fsm'.state = stateTrend
          /\ ~PositionOnSide(exec', fsm'.trendSide))
          => (exec.positions[TestSymbol] # 0 /\ fsm.trendSide # NoSide)]_vars

----------------------------------------------------------------------------
(* The target set of a rebalance.  After a ProcessBar call that rebalanced,
   rp.target is the target set it chose and rp.states holds the scores it
   ranked. *)

Universe == DOMAIN rp.states

ScoreOf(s) == rp.states[s].score

AboveThreshold(s) == RatLt(strengthThreshold, ScoreOf(s))

(* C33: in every rebalance the target set T has at most topK members, every
   member has a score above 0.1, no symbol outside T has a score strictly
   greater than that of a member, and if T has fewer than topK members every
   symbol outside T has a score of at most 0.1. *)
C33_TargetSet ==
    rp.rebalanced =>
        /\ rp.target \subseteq Universe
        /\ Cardinality(rp.target) <= rp.topK
        /\ \A t \in rp.target : AboveThreshold(t)
        /\ \A s \in Universe \ rp.target, t \in rp.target : ~RatLt(ScoreOf(t), ScoreOf(s))
        /\ Cardinality(rp.target) < rp.topK =>
              \A s \in Universe \ rp.target : ~AboveThreshold(s)

\* a rebalance with room for two that took one symbol and left out the
\* other, whose score is exactly the threshold
C33_Witness ==
    /\ rp.rebalanced
    /\ rp.topK = 2
    /\ Cardinality(rp.target) = 1
    /\ \E s \in Universe \ rp.target : ScoreOf(s) = strengthThreshold

\* a rebalance with room for one and two equal scores above the threshold
C33_WitnessTie ==
    /\ rp.rebalanced
    /\ rp.topK = 1
    /\ Cardinality(rp.target) = 1
    /\ \E s \in Universe \ rp.target, t \in rp.target :
          ScoreOf(s) = ScoreOf(t) /\ AboveThreshold(s)

\* a rebalance that found no symbol strong enough
C33_WitnessEmpty ==
    /\ rp.rebalanced
    /\ rp.target = {}
    /\ \E s \in Universe : ScoreOf(s) = strengthThreshold

----------------------------------------------------------------------------
(* The entries of a rebalance.  In a step that rebalances, exec is the
   executor before the rebalance, exec'.calls the orders it submitted and
   rp' the scheduler it ranked. *)

\* the places of the orders for symbol s among calls
OrdersFor(calls, s) == {k \in 1..Len(calls) : calls[k].Symbol = s}

\* the equity the opening loop reads: the equity once the closing loop is done
EquityAfterCloses == CloseFrom(StartHandler(exec), rp', rp'.target, 1).equity

\* an entry order o of the rebalance of this step
GoodEntry(o) ==
    /\ o.Symbol \in rp'.target
    /\ exec.positions[o.Symbol] = 0
    /\ Cardinality(OrdersFor(exec'.calls, o.Symbol)) = 1
    /\ o.Price = rp'.states[o.Symbol].lastBar.close
    /\ o.Qty > 0
    /\ o.Qty = EntryQty(rp', Cfg, EquityAfterCloses, o.Price)

(* C34: a rebalance submits an entry order only for target-set symbols whose
   position is zero at that moment, each sized as CalcQty(equity read once
   after the closes, MaxRiskPerTrade / topK, StopLossPct, last close); for a
   target-set symbol that already holds a position it submits no order and
   leaves that position unchanged. *)
C34_Entries ==
    [][ rp'.rebalanced =>
          /\ \A k \in 1..Len(exec'.calls) :
                IsEntry(exec'.calls[k]) => GoodEntry(exec'.calls[k])
          /\ \A s \in rp'.target :
                exec.positions[s] # 0 =>
                    /\ OrdersFor(exec'.calls, s) = {}
                    /\ exec'.positions[s] = exec.positions[s]
                    /\ exec'.avgPrice[s] = exec.avgPrice[s]
      ]_vars

\* a rebalance whose target set holds a symbol kept from before, untouched,
\* and a symbol it entered
C34_Witness ==
    /\ rp.rebalanced
    /\ \E s, t \in rp.target :
          /\ exec.positions[s] # 0
          /\ OrdersFor(exec.calls, s) = {}
          /\ \E k \in OrdersFor(exec.calls, t) : IsEntry(exec.calls[k])

\* a rebalance that closed one symbol and sized the entry of another on the
\* equity after that close
C34_WitnessAfterClose ==
    /\ rp.rebalanced
    /\ Len(exec.calls) = 2
    /\ IsExit(exec.calls[1])
    /\ IsEntry(exec.calls[2])

----------------------------------------------------------------------------
(* The rotation scheduler with an interval of one or two bars per symbol,
   fed any mix of its two symbols, an unknown symbol and bars its indicator
   suite rejects.  qin holds the last call (its symbol and bar, whether the
   symbol is known, whether Add accepted the bar, and whether the call before
   it was one that Add rejected) and, per symbol, the accepted
   bars since the previous rebalance (counts) and their number at the moment
   of the last rebalance (atRebalance). *)

RotMaxBars == 6

RotIntervals == {1, 2}

RotInputs == {<<VolatileBar, IndQuiet>>, <<FlatBar, IndBearish>>, <<FlatBar, IndAddErr>>}

RotCalls ==
    ({RPSymbols[i] : i \in 1..Len(RPSymbols)} \X RotInputs)
        \cup {<<UnknownSymbol, <<VolatileBar, IndQuiet>>>>}

NoBars == [s \in {RPSymbols[i] : i \in 1..Len(RPSymbols)} |-> 0]

RotInit ==
    /\ exec = NewExecutor(StartEquity, {RPSymbols[i] : i \in 1..Len(RPSymbols)})
    /\ Cfg = TestCfg(<<0, 1>>, <<0, 1>>)
    /\ \E topK \in 1..Len(RPSymbols), intervalBars \in RotIntervals :
          /\ ValidTopK(RPSymbols, topK)
          /\ rp = NewRiskParityRotation(RPSymbols, topK, intervalBars)
    /\ qin = [sym |-> UnknownSymbol, bar |-> FlatBar, known |-> FALSE, accepted |-> FALSE,
              afterError |-> FALSE, counts |-> NoBars, atRebalance |-> NoBars]
    /\ qout = << >>
    /\ bars = 0
    /\ mu = 0
    /\ thr = << >>
    /\ SingleIdle

\* one ProcessBar call, lock to unlock
RotBar(sym, bar, ind) ==
    /\ bars < RotMaxBars
    /\ RPProcessBar(sym, bar, ind)
    /\ LET known    == sym \in DOMAIN rp.states
           accepted == known /\ ~ind.addErr
           counted  == IF accepted THEN [qin.counts EXCEPT ![sym] = @ + 1]
                       ELSE qin.counts
       IN  qin' = [sym |-> sym, bar |-> bar, known |-> known, accepted |-> accepted,
                   afterError |-> (bars > 0 /\ qin.known /\ ~qin.accepted),
                   counts |-> IF rp'.rebalanced THEN NoBars ELSE counted,
                   atRebalance |-> IF rp'.rebalanced THEN counted ELSE qin.atRebalance]
    /\ bars' = bars + 1
    /\ UNCHANGED <<qout, Cfg, prices, fsm, mu, thr>>

RotNext == \E c \in RotCalls : RotBar(c[1], c[2][1], c[2][2])

SpecRot == RotInit /\ [][RotNext]_vars

\* intervalBars * |universe|
CycleBars == rp.intervalBars * Len(rp.symbols)

(* C35: with intervalBars >= 1 the scheduler rebalances on exactly those
   accepted bars (known symbol, indicator update succeeded) that bring the
   number of accepted bars since the previous rebalance to
   intervalBars * |universe|, and then resets that count to 0; between
   ProcessBar calls the count is always in 0 .. intervalBars * |universe| - 1. *)
C35_RebalanceCycle ==
    /\ [](rp.barsSinceRebalance \in 0..(CycleBars - 1))
    /\ [][ /\ qin'.accepted =>
                /\ rp'.rebalanced <=> (rp.barsSinceRebalance + 1 = CycleBars)
                /\ rp'.rebalanced => rp'.barsSinceRebalance = 0
                /\ ~rp'.rebalanced => rp'.barsSinceRebalance = rp.barsSinceRebalance + 1
           /\ ~qin'.accepted =>
                /\ ~rp'.rebalanced
                /\ rp'.barsSinceRebalance = rp.barsSinceRebalance
         ]_vars

\* a rebalance on the fourth accepted bar of a scheduler with an interval of
\* two, after calls that did not count
C35_Witness ==
    /\ rp.rebalanced
    /\ rp.intervalBars = 2
    /\ rp.barsSinceRebalance = 0
    /\ bars > 2 * Len(rp.symbols)

\* the second rebalance of a scheduler with an interval of one
C35_WitnessSecond ==
    /\ rp.rebalanced
    /\ rp.intervalBars = 1
    /\ bars >= 2 * Len(rp.symbols)
    /\ \E s \in DOMAIN rp.states : rp.states[s].hasPrev

----------------------------------------------------------------------------
(* The second RiskParityRotation of the repository: ProcessBar looks the
   symbol up under a read lock, releases it, calls suite.Add with no lock
   held, and takes the exclusive lock only for the bar counter, the score and
   the rebalance.  Two feed threads call it.  mu is 0 when the mutex is free,
   the holder's number under Lock, and -n while n threads hold RLock.  A
   SymbolState is [suite, lastClose, score]: the last answer of the suite,
   the last element of its close series (0 for an empty series), the score. *)

RwMaxCalls == 4

\* a low-priced candle, and a suite that answers a strong symbol
CheapBar == barSnapshot(11, 9, 10, 1500)

IndStrong == [IndBullish EXCEPT !.atso = <<"val", XInt(8)>>]

RwCalls ==
    {<<"AAA", <<CheapBar, IndStrong>>>>, <<"AAA", <<CheapBar, IndAddErr>>>>,
     <<"BBB", <<CheapBar, IndQuiet>>>>, <<UnknownSymbol, <<CheapBar, IndQuiet>>>>}

\* NewRiskParityRotation(symbols, cfg, exec, topK, intervalBars, log), for a valid topK
NewRotationRw(symbols, topK, intervalBars) ==
    [symbols |-> symbols,
     states |-> [s \in {symbols[i] : i \in 1..Len(symbols)} |->
                    [suite |-> IndQuiet, lastClose |-> 0, score |-> <<0, 1>>]],
     topK |-> topK,
     intervalBars |-> intervalBars,
     barCnt |-> 0]

RwInit ==
    /\ exec = NewExecutor(StartEquity, {RPSymbols[i] : i \in 1..Len(RPSymbols)})
    /\ Cfg = TestCfg(<<0, 1>>, <<0, 1>>)
    /\ rp = NewRotationRw(RPSymbols, 1, 1)
    /\ bars = 0
    /\ mu = 0
    /\ thr = [t \in Threads |-> IdleThread]
    /\ SizerIdle
    /\ SingleIdle

\* the value of an accessor whose error is dropped (val, _ := Calculate()): 0 on an error
ValueOrZero(answer) == IF answer[1] = "val" THEN answer[2] ELSE 0

\* computeStrength(suite): RSI and MFI normalised on the configured bands, |ATSO| capped at 3
StrengthRw(cfg, ind) ==
    LET rsiNorm  == clamp01(Rat(ValueOrZero(ind.rsi) - cfg.RSIOversold,
                                cfg.RSIOverbought - cfg.RSIOversold))
        mfiNorm  == clamp01(Rat(ValueOrZero(ind.mfi) - cfg.MFIOversold,
                                cfg.MFIOverbought - cfg.MFIOversold))
        atso     == IF ind.atso[1] = "val" THEN ind.atso[2] ELSE XInt(0)
        atsoNorm == clamp01(Rat(Abs(atso.n), 3 * atso.d))
    IN  RatAdd(RatAdd(RatMul(wRSI, rsiNorm), RatMul(wMFI, mfiNorm)), RatMul(wATSO, atsoNorm))

\* the target set: the topK first of the ranking
TargetSetRw(r, sorted) == {sorted[i] : i \in 1..Min(r.topK, Len(sorted))}

\* one round of the closing loop
CloseOneRw(es, r, target, sym) ==
    IF es.positions[sym] = 0 THEN es
    ELSE IF sym \in target THEN es
    ELSE IF r.states[sym].lastClose = 0 THEN es
    ELSE RPClosePosition(es, sym, r.states[sym].lastClose)

RECURSIVE CloseFromRw(_, _, _, _)
CloseFromRw(es, r, target, i) ==
    IF i > Len(r.symbols) THEN es
    ELSE CloseFromRw(CloseOneRw(es, r, target, r.symbols[i]), r, target, i + 1)

\* qtyToTrade: (totalEquity * MaxRiskPerTrade / topK) / stopDist floored to two
\* decimals, stopDist being ATSO * StopLossPct, 0.0001 when that is not positive
EntryQtyRw(r, cfg, totalEquity, atso) ==
    LET dist == IF atso.n > 0
                THEN RatMul(<<atso.n, atso.d>>, cfg.StopLossPct)
                ELSE <<1, 10000>>
        k    == RatMul(Rat(cfg.MaxRiskPerTrade[1], cfg.MaxRiskPerTrade[2] * r.topK),
                       <<dist[2], dist[1]>>)
    IN  FloorDiv(totalEquity * k[1], k[2] * 100) * 100

\* one round of the opening loop
OpenOneRw(es, r, cfg, totalEquity, sym) ==
    LET st == r.states[sym]
    IN  IF es.positions[sym] # 0 THEN es
        ELSE IF st.lastClose = 0 THEN es
        ELSE IF st.suite.atso[1] # "val" THEN es
        ELSE IF EntryQtyRw(r, cfg, totalEquity, st.suite.atso[2]) <= 0 THEN es
        ELSE Submit(es, Order(sym, IF st.suite.atso[2].n < 0 THEN Sell ELSE Buy,
                              EntryQtyRw(r, cfg, totalEquity, st.suite.atso[2]),
                              st.lastClose, "RiskParity entry"))

RECURSIVE OpenFromRw(_, _, _, _, _, _)
OpenFromRw(es, r, cfg, totalEquity, order, j) ==
    IF j > Len(order) THEN es
    ELSE OpenFromRw(OpenOneRw(es, r, cfg, totalEquity, order[j]), r, cfg, totalEquity,
                    order, j + 1)

\* rebalance(), for one outcome of the sort and one iteration order of the target set
rebalanceRw(es, r, cfg, sorted, order) ==
    LET closed == CloseFromRw(es, r, TargetSetRw(r, sorted), 1)
    IN  OpenFromRw(closed, r, cfg, closed.equity, order, 1)

\* a thread calls ProcessBar(symbol, high, low, close, volume)
RwCall(t, c) ==
    /\ thr[t].pc = "idle"
    /\ bars < RwMaxCalls
    /\ thr' = [thr EXCEPT ![t] = [IdleThread EXCEPT !.pc = "rlock", !.sym = c[1],
                                                    !.bar = c[2][1], !.ind = c[2][2]]]
    /\ bars' = bars + 1
    /\ UNCHANGED <<qin, qout, exec, Cfg, prices, fsm, rp, mu>>

\* rp.mu.RLock(): no thread holds the exclusive lock
RwRLock(t) ==
    /\ thr[t].pc = "rlock"
    /\ mu <= 0
    /\ mu' = mu - 1
    /\ thr' = [thr EXCEPT ![t].pc = "lookup"]
    /\ UNCHANGED <<qin, qout, exec, Cfg, prices, bars, fsm, rp>>

\* state, ok := rp.states[symbol]; rp.mu.RUnlock(); unknown symbol: return
RwLookup(t) ==
    /\ thr[t].pc = "lookup"
    /\ mu' = mu + 1
    /\ thr' = [thr EXCEPT ![t].pc = IF thr[t].sym \in DOMAIN rp.states THEN "add" ELSE "idle"]
    /\ UNCHANGED <<qin, qout, exec, Cfg, prices, bars, fsm, rp>>

\* state.suite.Add(...) is entered, no lock held
RwAddBegin(t) ==
    /\ thr[t].pc = "add"
    /\ thr' = [thr EXCEPT ![t].pc = "adding"]
    /\ UNCHANGED <<qin, qout, exec, Cfg, prices, bars, fsm, rp, mu>>

\* the threads inside suite.Add of the symbol of t
AddingWith(t) == {u \in Threads : thr[u].pc = "adding" /\ thr[u].sym = thr[t].sym}

\* state.suite.Add(...) returns; on an error: log and return.  Calls that
\* overlap on one suite race on its fields: what the suite holds afterwards
\* is what any of them wrote, field by field
RwAddEnd(t) ==
    /\ thr[t].pc = "adding"
    /\ IF thr[t].ind.addErr
       THEN /\ thr' = [thr EXCEPT ![t].pc = "idle"]
            /\ rp' = rp
       ELSE /\ \E u, w \in {x \in AddingWith(t) : ~thr[x].ind.addErr} :
                  rp' = [rp EXCEPT !.states[thr[t].sym].suite = thr[u].ind,
                                   !.states[thr[t].sym].lastClose = thr[w].bar.close]
            /\ thr' = [thr EXCEPT ![t].pc = "lock"]
    /\ UNCHANGED <<qin, qout, exec, Cfg, prices, bars, fsm, mu>>

\* rp.mu.Lock()
RwLock(t) ==
    /\ thr[t].pc = "lock"
    /\ CanLock(mu)
    /\ mu' = t
    /\ thr' = [thr EXCEPT ![t].pc = "update"]
    /\ UNCHANGED <<qin, qout, exec, Cfg, prices, bars, fsm, rp>>

\* rp.barCnt++, the score, and the rebalance when barCnt % intervalBars == 0
RwUpdate(t) ==
    /\ thr[t].pc = "update"
    /\ LET sym == thr[t].sym
           u   == [rp EXCEPT !.barCnt = @ + 1,
                             !.states[sym].score = StrengthRw(Cfg, rp.states[sym].suite)]
       IN  /\ rp' = u
           /\ IF u.barCnt % u.intervalBars = 0
              THEN \E sorted \in Rankings(u) :
                     \E order \in PermSeqs(TargetSetRw(u, sorted)) :
                        exec' = rebalanceRw(StartHandler(exec), u, Cfg, sorted, order)
              ELSE exec' = StartHandler(exec)
    /\ thr' = [thr EXCEPT ![t].pc = "unlock"]
    /\ UNCHANGED <<qin, qout, Cfg, prices, bars, fsm, mu>>

\* rp.mu.Unlock()
RwUnlock(t) ==
    /\ thr[t].pc = "unlock"
    /\ mu' = 0
    /\ thr' = [thr EXCEPT ![t].pc = "idle"]
    /\ UNCHANGED <<qin, qout, exec, Cfg, prices, bars, fsm, rp>>

RwNext ==
    \E t \in Threads :
        \/ \E c \in RwCalls : RwCall(t, c)
        \/ RwRLock(t)
        \/ RwLookup(t)
        \/ RwAddBegin(t)
        \/ RwAddEnd(t)
        \/ RwLock(t)
        \/ RwUpdate(t)
        \/ RwUnlock(t)

SpecRw == RwInit /\ [][RwNext]_vars

\* the places of ProcessBar where suite.Add runs or is about to
AddPcs == {"add", "adding"}

(* C37: the indicator-suite update (suite.Add) and the score update for a
   symbol are performed while the calling thread holds the scheduler's
   exclusive lock, so two concurrent ProcessBar calls for the same symbol
   never execute suite.Add at the same time and no thread reads a score
   while another is writing it. *)
C37_AddUnderLock ==
    /\ \A t \in Threads : thr[t].pc \in AddPcs \cup {"update"} => mu = t
    /\ \A t, u \in Threads :
          (t # u /\ thr[t].pc \in AddPcs /\ thr[u].pc \in AddPcs) => thr[t].sym # thr[u].sym

\* the score is written, and the ranking reads every score, under the exclusive lock
C37_ScoreUnderLock ==
    /\ \A t \in Threads : thr[t].pc \in {"update"} \cup RebalancePcs => mu = t
    /\ Cardinality({t \in Threads : thr[t].pc \in {"update"} \cup RebalancePcs}) <= 1

\* two calls for one symbol inside suite.Add at once
C37_BothAdding ==
    \E t, u \in Threads :
        /\ t # u
        /\ thr[t].pc = "adding" /\ thr[u].pc = "adding"
        /\ thr[t].sym = thr[u].sym
        /\ mu = 0

(* C36: a rebalance runs only when all symbols of the universe have been
   processed for the interval: at the moment rebalance is called, every
   symbol has received at least intervalBars accepted bars since the
   previous rebalance, whatever the order and mix of symbols in the
   incoming bars. *)
C36_AllSymbolsProcessed ==
    rp.rebalanced => \A s \in DOMAIN rp.states : qin.atRebalance[s] >= rp.intervalBars

RECURSIVE BarsOfFirst(_, _)
\* the accepted bars of the first i symbols together
BarsOfFirst(c, i) == IF i = 0 THEN 0 ELSE c[RPSymbols[i]] + BarsOfFirst(c, i - 1)

\* what the counter does guarantee: the accepted bars of all symbols together
\* number intervalBars * |universe| at a rebalance
C36_TotalAtRebalance ==
    rp.rebalanced => BarsOfFirst(qin.atRebalance, Len(RPSymbols)) = CycleBars

\* a rebalance with a symbol that has never received a bar
C36_RebalanceWithoutBar ==
    /\ rp.rebalanced
    /\ \E s \in DOMAIN rp.states : qin.atRebalance[s] = 0 /\ ~rp.states[s].hasLast

\* the scheduler's own fields: everything but the note of whether the last call rebalanced
SchedulerFields(r) == [r EXCEPT !.rebalanced = FALSE]

\* the executor's account: everything but the record of the running handler
Account(es) == [equity |-> es.equity, positions |-> es.positions,
                avgPrice |-> es.avgPrice, orders |-> es.orders]

(* C38: ProcessBar called with a symbol that is not in the universe changes
   nothing: no SymbolState, score or counter changes, no rebalance runs, no
   order is submitted, and the set of symbols with a SymbolState stays equal
   to the universe given at construction. *)
C38_UnknownSymbolFrame ==
    /\ [](DOMAIN rp.states = {RPSymbols[i] : i \in 1..Len(RPSymbols)})
    /\ [][ ~qin'.known =>
              /\ SchedulerFields(rp') = SchedulerFields(rp)
              /\ ~rp'.rebalanced
              /\ exec'.calls = NoOrders
              /\ Account(exec') = Account(exec)
         ]_vars

\* an unknown symbol's bar arrives when one more accepted bar would rebalance
\* and a position is open
C38_Witness ==
    /\ bars > 0
    /\ qin.sym = UnknownSymbol /\ ~qin.known
    /\ rp.barsSinceRebalance = CycleBars - 1
    /\ rp.barsSinceRebalance > 0
    /\ \E s \in DOMAIN rp.states : exec.positions[s] # 0

(* C39: if the indicator-suite Add fails for a bar, ProcessBar leaves that
   symbol's score, last-bar snapshot and previous close and the
   bars-since-rebalance counter unchanged, runs no rebalance and submits no
   order; the following bars are processed normally. *)
C39_AddErrorFrame ==
    /\ [][ (qin'.known /\ ~qin'.accepted) =>
              /\ SchedulerFields(rp') = SchedulerFields(rp)
              /\ ~rp'.rebalanced
              /\ exec'.calls = NoOrders
              /\ Account(exec') = Account(exec)
         ]_vars
    /\ [][ (qin'.afterError /\ qin'.accepted) =>
              LET st == rp'.states[qin'.sym]
              IN  /\ st.lastBar = qin'.bar /\ st.hasLast
                  /\ st.hasPrev = rp.states[qin'.sym].hasLast
                  /\ st.hasPrev => st.prevClose = rp.states[qin'.sym].lastBar.close
                  /\ st.score = computeStrength(Cfg, st)
                  /\ rp'.rebalanced <=> (rp.barsSinceRebalance + 1 = CycleBars)
                  /\ ~rp'.rebalanced => rp'.barsSinceRebalance = rp.barsSinceRebalance + 1
         ]_vars

\* Add rejects a bar of a symbol that has a snapshot, a previous close and a
\* score, when one more accepted bar would rebalance
C39_Witness ==
    /\ bars > 0
    /\ qin.known /\ ~qin.accepted
    /\ rp.states[qin.sym].hasPrev
    /\ rp.states[qin.sym].score # <<0, 1>>
    /\ rp.barsSinceRebalance = CycleBars - 1
    /\ rp.barsSinceRebalance > 0

\* the bar after a rejected one is accepted and rebalances with an order
C39_WitnessNextBar ==
    /\ qin.afterError /\ qin.accepted
    /\ rp.rebalanced
    /\ exec.calls # NoOrders

(* C40: at the end of every HybridTrendMeanReversion.ProcessBar call
   flatBarCounter is 0, 1 or 2, it is 0 whenever the state is Idle or
   Revert, and trendSide is BUY or SELL whenever the state is Trend or
   Revert (reached through ProcessBar from the initial Idle state). *)
C40_FsmInvariant ==
    /\ fsm.flatBarCounter \in {0, 1, 2}
    /\ fsm.state \in {stateIdle, stateRevert} => fsm.flatBarCounter = 0
    /\ fsm.state \in {stateTrend, stateRevert} => fsm.trendSide \in {Buy, Sell}

\* a trend one flat bar away from its exit
C40_Witness ==
    /\ fsm.state = stateTrend
    /\ fsm.flatBarCounter = flatBarThreshold - 1
    /\ fsm.trendSide \in {Buy, Sell}

\* Revert right after the third flat bar
C40_WitnessRevert ==
    /\ fsm.state = stateRevert
    /\ fsm.flatBarCounter = 0
    /\ fsm.trendSide = Sell

\* Idle again after a whole cycle, the side of the finished trend still recorded
C40_WitnessIdleAgain ==
    /\ fsm.state = stateIdle
    /\ fsm.trendSide \in {Buy, Sell}
    /\ fsm.flatBarCounter = 0

====
